---- MODULE Spec2Model ----
(***************************************************************************)
(* Private liquid staking: the PrivateStaking ledger, its PLSToken receipt *)
(* token, the staking asset it holds in custody, and the claim signatures  *)
(* produced by the confidential reward oracle (signRewardClaim).           *)
(*                                                                         *)
(* Every external call of the contracts is one atomic step (a transaction  *)
(* either commits all its writes or reverts all of them).  keccak256 over  *)
(* a tightly packed encoding of fixed-width fields is modelled as the      *)
(* tagged tuple of the fields (an injective, collision-free hash).         *)
(* Amounts are far below 2^256, so uint256 additions are plain additions;  *)
(* subtractions keep Solidity's checked-arithmetic revert.                 *)
(***************************************************************************)
EXTENDS Integers, Sequences, FiniteSets, TLC

\* ------------------------------------------------------------ bounds
MaxAmount == 2          \* stake / reward amounts are drawn from 0..MaxAmount
InitBalance == 2        \* staking asset each user is funded with
MaxNonce == 2           \* nonces an oracle signature is made over: 0..MaxNonce
MaxTx == 4              \* transactions committed in one run

\* ------------------------------------------------------------ principals
Users == {"alice", "bob"}
Deployer == "deployer"          \* msg.sender of both constructors
Ledger == "ledger"              \* address(this) of PrivateStaking
OtherLedger == "ledger2"        \* some other contract address
Zero == "0x0"                   \* address(0)
OracleKeys == {"tee1", "tee2"}  \* addresses of keys a TEE oracle may sign with
Unrelated == "0xunrelated"      \* what ecrecover yields for a signature over another digest
ChainId == "chain"              \* block.chainid
OtherChain == "chain2"

Salts == {"s1", "s2"}
ProofHashes == {"p1", "p2"}
Amounts == 0 .. MaxAmount
RewardAmounts == {1}            \* reward amounts claimed in a run
Callers == Users \cup {Deployer}
OracleChoices == OracleKeys \cup {Zero}
AssetHolders == Users \cup {Ledger}

VARIABLES
    teeOracle,          \* address public teeOracle
    totalStaked,        \* uint256 public totalStaked
    stakeCommitments,   \* mapping(bytes32 => bool): the commitments mapped to true
    userCommitments,    \* mapping(address => bytes32[])
    claimedRewards,     \* mapping(bytes32 => bool): the proof hashes mapped to true
    nonces,             \* mapping(address => uint256)
    assetBal,           \* stakingAsset.balanceOf
    assetAllow,         \* stakingAsset.allowance(user, ledger)
    plsBal,             \* plsToken.balanceOf
    plsSupply,          \* plsToken.totalSupply
    plsStakingContract, \* PLSToken.stakingContract
    positions,          \* the (owner, amount, salt) stake positions their owners hold
    claimLog,           \* the RewardsClaimed events emitted, with the nonce each consumed
    oracleLog,          \* the addresses the TEEOracleUpdated events emitted carry
    status,             \* ReentrancyGuard._status of the ledger
    frames,             \* the guarded ledger calls in progress, outermost first
    iapp,               \* the oracle application: its request and, once run, its result
    txCount,            \* number of transactions committed so far
    last                \* the last committed call

vars == <<teeOracle, totalStaked, stakeCommitments, userCommitments, claimedRewards,
          nonces, assetBal, assetAllow, plsBal, plsSupply, plsStakingContract,
          positions, claimLog, oracleLog, status, frames, iapp, txCount, last>>

\* The contracts' storage.
ledgerVars == <<teeOracle, totalStaked, stakeCommitments, userCommitments,
                claimedRewards, nonces, assetBal, assetAllow, plsBal, plsSupply,
                plsStakingContract>>

\* The contracts' storage as one record, so that a call is a function of it.
Cur ==
    [teeOracle |-> teeOracle, totalStaked |-> totalStaked,
     stakeCommitments |-> stakeCommitments, userCommitments |-> userCommitments,
     claimedRewards |-> claimedRewards, nonces |-> nonces,
     assetBal |-> assetBal, assetAllow |-> assetAllow,
     plsBal |-> plsBal, plsSupply |-> plsSupply,
     plsStakingContract |-> plsStakingContract]

\* A call's outcome: the storage it leaves, its revert reason ("ok" if none) and
\* its return value.  A revert leaves the storage as it was.
Ok(st, ret) == [st |-> st, err |-> "ok", ret |-> ret]
Revert(st, reason) == [st |-> st, err |-> reason, ret |-> <<>>]

\* ------------------------------------------------------------ hashes and signatures
\* keccak256(abi.encodePacked(amount, salt, msg.sender))
CommitmentNoSender(amount, salt, sender) == <<"keccak", amount, salt, Zero>>
Commitment(amount, salt, sender) == <<"keccak", amount, salt, sender>>

\* keccak256(abi.encodePacked(msg.sender, amount, proofHash, nonces[msg.sender],
\*                            block.chainid, address(this)))
MessageHashNoNonce(claimant, amount, proofHash, nonce, chain, ledger) ==
    <<"keccak", claimant, amount, proofHash, 0, chain, ledger>>
MessageHash(claimant, amount, proofHash, nonce, chain, ledger) ==
    <<"keccak", claimant, amount, proofHash, nonce, chain, ledger>>

\* keccak256(abi.encodePacked("\x19Ethereum Signed Message:\n32", messageHash))
EthSignedHash(messageHash) == <<"keccak", "x19Ethereum Signed Message:n32", messageHash>>

\* ethers: solidityPacked([address, uint256, bytes32, uint256, uint256, address], ...)
\* then keccak256
OracleMessageHash(rewardData) ==
    <<"keccak", rewardData.userAddress, rewardData.amount, rewardData.proofHash,
      rewardData.nonce, rewardData.chainId, rewardData.contractAddress>>

\* ethers Wallet.signMessage(bytes): signs keccak256("\x19Ethereum Signed Message:\n"
\* + length + bytes); the message is the 32 bytes of the hash.
SignMessage(key, bytes32) ==
    [len |-> 65, signer |-> key,
     digest |-> <<"keccak", "x19Ethereum Signed Message:n32", bytes32>>]

signRewardClaim(rewardData, privateKey) ==
    SignMessage(privateKey, OracleMessageHash(rewardData))

\* 65 bytes that are no signature of anything: ecrecover returns address(0).
MalformedSig == [len |-> 65, signer |-> Zero, digest |-> <<>>]
\* A byte string of another length.
ShortSig == [len |-> 64, signer |-> Zero, digest |-> <<>>]
NoSig == [len |-> 0, signer |-> "-", digest |-> <<>>]

\* ecrecover(hash, v, r, s): the signing key's address when the signature was
\* made over this digest, address(0) when (v, r, s) is no valid signature, and
\* an address unrelated to any key otherwise.
ecrecoverAnyDigest(hash, sig) == sig.signer
ecrecover(hash, sig) ==
    IF sig.signer = Zero THEN Zero
    ELSE IF sig.digest = hash THEN sig.signer
    ELSE Unrelated

\* ------------------------------------------------------------ the staking asset (ERC20)
\* stakingAsset.safeTransferFrom(from, address(this), amount), called by the ledger:
\* spends the ledger's allowance, then moves the balance; reverts on either shortage.
transferFromUnchecked(st, from, to, amount) ==
    IF st.assetAllow[from] < amount \/ st.assetBal[from] < amount THEN Ok(st, <<>>)
    ELSE Ok([st EXCEPT !.assetAllow[from] = @ - amount,
                       !.assetBal = [[@ EXCEPT ![from] = @ - amount]
                                        EXCEPT ![to] = @ + amount]], <<>>)
safeTransferFrom(st, from, to, amount) ==
    IF st.assetAllow[from] < amount THEN Revert(st, "ERC20InsufficientAllowance")
    ELSE IF st.assetBal[from] < amount THEN Revert(st, "ERC20InsufficientBalance")
    ELSE Ok([st EXCEPT !.assetAllow[from] = @ - amount,
                       !.assetBal = [[@ EXCEPT ![from] = @ - amount]
                                        EXCEPT ![to] = @ + amount]], <<>>)

\* stakingAsset.safeTransfer(to, amount), called by the ledger.
safeTransferAll(st, to, amount) ==
    IF st.assetBal[Ledger] < amount THEN Revert(st, "ERC20InsufficientBalance")
    ELSE Ok([st EXCEPT !.assetBal = [[@ EXCEPT ![Ledger] = 0]
                                        EXCEPT ![to] = @ + st.assetBal[Ledger]]], <<>>)
safeTransfer(st, to, amount) ==
    IF st.assetBal[Ledger] < amount THEN Revert(st, "ERC20InsufficientBalance")
    ELSE Ok([st EXCEPT !.assetBal = [[@ EXCEPT ![Ledger] = @ - amount]
                                        EXCEPT ![to] = @ + amount]], <<>>)

\* ------------------------------------------------------------ PLSToken
\* modifier onlyStakingContract
onlyStakingContractOpen(st, sender) == TRUE
onlyStakingContract(st, sender) == sender = st.plsStakingContract

\* PLSToken.mint(to, amount), called by sender
mintNothing(st, sender, to, amount) == Ok(st, <<>>)
mint(st, sender, to, amount) ==
    IF ~onlyStakingContract(st, sender) THEN Revert(st, "OnlyStakingContract")
    ELSE Ok([st EXCEPT !.plsBal[to] = @ + amount, !.plsSupply = @ + amount], <<>>)

\* PLSToken.burn(from, amount), called by sender
burn(st, sender, from, amount) ==
    IF ~onlyStakingContract(st, sender) THEN Revert(st, "OnlyStakingContract")
    ELSE IF st.plsBal[from] < amount THEN Revert(st, "ERC20InsufficientBalance")
    ELSE Ok([st EXCEPT !.plsBal[from] = @ - amount, !.plsSupply = @ - amount], <<>>)

\* PLSToken.setStakingContract(_stakingContract), called by sender
setStakingContract(st, sender, newContract) ==
    IF sender # Deployer THEN Revert(st, "OwnableUnauthorizedAccount")
    ELSE IF newContract = Zero THEN Revert(st, "ZeroAddress")
    ELSE Ok([st EXCEPT !.plsStakingContract = newContract], <<>>)

\* ------------------------------------------------------------ PrivateStaking
\* _removeCommitment: the first occurrence is overwritten by the last element,
\* and the last element is popped.
RECURSIVE IndexOf(_, _, _)
IndexOf(list, x, i) ==
    IF i > Len(list) THEN 0
    ELSE IF list[i] = x THEN i
    ELSE IndexOf(list, x, i + 1)

removeCommitmentKeep(list, commitment) == list
removeCommitment(list, commitment) ==
    LET i == IndexOf(list, commitment, 1) IN
    IF i = 0 THEN list
    ELSE SubSeq([list EXCEPT ![i] = list[Len(list)]], 1, Len(list) - 1)

\* setTEEOracle(_teeOracle) external onlyOwner
setTEEOracleOpen(st, sender, newOracle) == Ok([st EXCEPT !.teeOracle = newOracle], <<>>)
setTEEOracle(st, sender, newOracle) ==
    IF sender # Deployer THEN Revert(st, "OwnableUnauthorizedAccount")
    ELSE Ok([st EXCEPT !.teeOracle = newOracle], <<>>)

\* stakeCommitments[commitment]
commitmentExistsNever(st, commitment) == FALSE
commitmentExistsAlways(st, commitment) == TRUE
commitmentExists(st, commitment) == commitment \in st.stakeCommitments

\* if (amount == 0) revert ZeroAmount();
isZeroAmountNever(amount) == FALSE
isZeroAmount(amount) == amount = 0

\* stake(amount, salt) external nonReentrant returns (bytes32 commitment)
stake(st, sender, amount, salt) ==
    LET commitment == Commitment(amount, salt, sender) IN
    IF isZeroAmount(amount) THEN Revert(st, "ZeroAmount")
    ELSE IF commitmentExists(st, commitment) THEN Revert(st, "CommitmentAlreadyExists")
    ELSE
      LET pulled == safeTransferFrom(st, sender, Ledger, amount) IN
      IF pulled.err # "ok" THEN Revert(st, pulled.err)
      ELSE
        LET stored == [pulled.st EXCEPT
                          !.stakeCommitments = @ \cup {commitment},
                          !.userCommitments[sender] = Append(@, commitment),
                          !.totalStaked = @ + amount]
            minted == mint(stored, Ledger, sender, amount)
        IN IF minted.err # "ok" THEN Revert(st, minted.err)
           ELSE Ok(minted.st, commitment)

\* unstake(amount, salt) external nonReentrant
unstake(st, sender, amount, salt) ==
    LET commitment == Commitment(amount, salt, sender) IN
    IF ~commitmentExists(st, commitment) THEN Revert(st, "CommitmentNotFound")
    ELSE
      LET removed == [st EXCEPT
                         !.stakeCommitments = @ \ {commitment},
                         !.userCommitments[sender] = removeCommitment(@, commitment)]
          burned == burn(removed, Ledger, sender, amount)
      IN
      IF burned.err # "ok" THEN Revert(st, burned.err)
      ELSE IF burned.st.totalStaked < amount THEN Revert(st, "Panic(0x11)")
      ELSE
        LET released == safeTransfer([burned.st EXCEPT !.totalStaked = @ - amount],
                                     sender, amount)
        IN IF released.err # "ok" THEN Revert(st, released.err)
           ELSE Ok(released.st, <<>>)

\* _recoverSigner(hash, signature): reverts unless the signature has 65 bytes.
recoverSigner(hash, signature) ==
    IF signature.len # 65 THEN [err |-> "Invalid signature length", signer |-> Zero]
    ELSE [err |-> "ok", signer |-> ecrecover(hash, signature)]

\* claimedRewards[proofHash]
alreadyClaimedNever(st, proofHash) == FALSE
alreadyClaimed(st, proofHash) == proofHash \in st.claimedRewards

\* claimedRewards[proofHash] = true; nonces[msg.sender]++;
markClaimedKeepNonce(st, sender, proofHash) ==
    [st EXCEPT !.claimedRewards = @ \cup {proofHash}]
markClaimed(st, sender, proofHash) ==
    [st EXCEPT !.claimedRewards = @ \cup {proofHash}, !.nonces[sender] = @ + 1]

\* if (signer != teeOracle) revert InvalidSignature();
signerIsOracleAnyKey(st, signer) == signer \in OracleKeys
signerIsOracle(st, signer) == signer = st.teeOracle

\* claimRewards(amount, proofHash, signature) external nonReentrant
claimRewards(st, sender, amount, proofHash, signature) ==
    IF alreadyClaimed(st, proofHash) THEN Revert(st, "AlreadyClaimed")
    ELSE
      LET messageHash == MessageHash(sender, amount, proofHash, st.nonces[sender],
                                     ChainId, Ledger)
          ethSignedHash == EthSignedHash(messageHash)
          rec == recoverSigner(ethSignedHash, signature)
      IN
      IF rec.err # "ok" THEN Revert(st, rec.err)
      ELSE IF ~signerIsOracle(st, rec.signer) THEN Revert(st, "InvalidSignature")
      ELSE
        LET minted == mint(markClaimed(st, sender, proofHash), Ledger, sender, amount)
        IN IF minted.err # "ok" THEN Revert(st, minted.err)
           ELSE Ok(minted.st, <<>>)

\* ------------------------------------------------------------ JavaScript numbers
\* Non-negative integers of any size, as sequences of 15-bit limbs: least
\* significant limb first, no leading zero limb, <<>> for zero.
LimbBits == 15
Base == 2 ^ LimbBits

RECURSIVE Big(_)
Big(n) == IF n = 0 THEN <<>> ELSE <<n % Base>> \o Big(n \div Base)

RECURSIVE Trim(_)
Trim(b) == IF b = <<>> \/ b[Len(b)] # 0 THEN b ELSE Trim(SubSeq(b, 1, Len(b) - 1))

Limb(b, i) == IF i >= 1 /\ i <= Len(b) THEN b[i] ELSE 0

RECURSIVE AddFrom(_, _, _, _)
AddFrom(a, b, i, carry) ==
    IF i > Len(a) /\ i > Len(b) THEN (IF carry = 0 THEN <<>> ELSE <<carry>>)
    ELSE LET s == Limb(a, i) + Limb(b, i) + carry
         IN <<s % Base>> \o AddFrom(a, b, i + 1, s \div Base)
BAdd(a, b) == AddFrom(a, b, 1, 0)

\* a - b for a >= b
RECURSIVE SubFrom(_, _, _, _)
SubFrom(a, b, i, borrow) ==
    IF i > Len(a) THEN <<>>
    ELSE LET d == Limb(a, i) - Limb(b, i) - borrow
         IN <<(d + Base) % Base>> \o SubFrom(a, b, i + 1, IF d < 0 THEN 1 ELSE 0)
BSub(a, b) == Trim(SubFrom(a, b, 1, 0))

RECURSIVE LessFrom(_, _, _)
LessFrom(a, b, i) ==
    IF i = 0 THEN FALSE
    ELSE IF a[i] # b[i] THEN a[i] < b[i]
    ELSE LessFrom(a, b, i - 1)
BLess(a, b) == IF Len(a) # Len(b) THEN Len(a) < Len(b) ELSE LessFrom(a, b, Len(a))

\* a * m for 0 <= m < Base
RECURSIVE MulSmallFrom(_, _, _, _)
MulSmallFrom(a, m, i, carry) ==
    IF i > Len(a) THEN (IF carry = 0 THEN <<>> ELSE <<carry>>)
    ELSE LET p == a[i] * m + carry
         IN <<p % Base>> \o MulSmallFrom(a, m, i + 1, p \div Base)
BMulSmall(a, m) == IF m = 0 THEN <<>> ELSE MulSmallFrom(a, m, 1, 0)

\* a \div m for 0 < m <= Base
RECURSIVE DivSmallFrom(_, _, _, _)
DivSmallFrom(a, m, i, r) ==
    IF i = 0 THEN <<>>
    ELSE LET cur == r * Base + a[i]
         IN DivSmallFrom(a, m, i - 1, cur % m) \o <<cur \div m>>
BDivSmall(a, m) == Trim(DivSmallFrom(a, m, Len(a), 0))

ShiftLimbs(b, k) == IF b = <<>> THEN <<>> ELSE [i \in 1 .. k |-> 0] \o b

RECURSIVE BMul(_, _)
BMul(a, b) ==
    IF a = <<>> \/ b = <<>> THEN <<>>
    ELSE BAdd(BMulSmall(b, a[1]), ShiftLimbs(BMul(Tail(a), b), 1))

\* b * 2^k and b \div 2^k
ShiftLeft(b, k) == ShiftLimbs(BMulSmall(b, 2 ^ (k % LimbBits)), k \div LimbBits)
ShiftRight(b, k) ==
    IF k \div LimbBits >= Len(b) THEN <<>>
    ELSE BDivSmall(SubSeq(b, k \div LimbBits + 1, Len(b)), 2 ^ (k % LimbBits))

\* the number of significant bits of b
BitLen(b) ==
    IF b = <<>> THEN 0
    ELSE LimbBits * (Len(b) - 1)
         + (CHOOSE k \in 1 .. LimbBits : 2 ^ (k - 1) <= b[Len(b)] /\ b[Len(b)] < 2 ^ k)

IsOdd(b) == Limb(b, 1) % 2 = 1

\* quotient and remainder of a by d > 0, by long division: the largest digit
\* k in lo .. hi with k * d <= r is found by bisection
RECURSIVE DigitSearch(_, _, _, _)
DigitSearch(r, d, lo, hi) ==
    IF lo = hi THEN lo
    ELSE LET mid == (lo + hi + 1) \div 2
         IN IF BLess(r, BMulSmall(d, mid)) THEN DigitSearch(r, d, lo, mid - 1)
            ELSE DigitSearch(r, d, mid, hi)

RECURSIVE DivFrom(_, _, _, _, _)
DivFrom(a, d, i, q, r) ==
    IF i = 0 THEN [q |-> q, r |-> r]
    ELSE LET r2 == Trim(<<a[i]>> \o r)
             k == DigitSearch(r2, d, 0, Base - 1)
         IN DivFrom(a, d, i - 1, Trim(<<k>> \o q), BSub(r2, BMulSmall(d, k)))
BDivMod(a, d) == DivFrom(a, d, Len(a), <<>>, <<>>)

\* A JavaScript Number is an IEEE-754 double: 53 significant bits, results
\* rounded to nearest, ties to even.  (The exponent range is not modelled.)
PrecisionBits == 53

\* The double nearest to the integer b, or to b plus a non-zero fraction below
\* one when sticky, for b of more than 53 bits.
RoundToDouble(b, sticky) ==
    IF BitLen(b) <= PrecisionBits THEN b
    ELSE LET k == BitLen(b) - PrecisionBits
             top == ShiftRight(b, k)
             below == BSub(b, ShiftLeft(top, k))
             half == ShiftLeft(<<1>>, k - 1)
             up == BLess(half, below) \/ (below = half /\ (sticky \/ IsOdd(top)))
         IN ShiftLeft(IF up THEN BAdd(top, <<1>>) ELSE top, k)

\* A Number holding an integer: its sign and magnitude.
Num(n) == [neg |-> n < 0, mag |-> Big(IF n < 0 THEN 0 - n ELSE n)]

\* The Number NaN; every operation on it yields it.
NaN == [nan |-> TRUE]

\* Values of other types: undefined (a missing field as well), null, a string
\* of decimal digits, any other string.
Undefined == [undefined |-> TRUE]
JsNull == [null |-> TRUE]
DecimalString(b) == [digits |-> b]
Text(t) == [text |-> t]

\* The Number an operand of *, - or / is converted to.
ToNumber(v) ==
    IF "mag" \in DOMAIN v \/ v = NaN THEN v
    ELSE IF v = JsNull THEN Num(0)
    ELSE IF "digits" \in DOMAIN v THEN [neg |-> FALSE, mag |-> RoundToDouble(v.digits, FALSE)]
    ELSE NaN

\* a - b
NumSub(a, b) ==
    IF a = NaN \/ b = NaN THEN NaN
    ELSE IF a.neg # b.neg THEN [neg |-> a.neg, mag |-> RoundToDouble(BAdd(a.mag, b.mag), FALSE)]
    ELSE IF BLess(a.mag, b.mag)
         THEN [neg |-> ~a.neg, mag |-> RoundToDouble(BSub(b.mag, a.mag), FALSE)]
         ELSE [neg |-> a.neg /\ a.mag # b.mag, mag |-> RoundToDouble(BSub(a.mag, b.mag), FALSE)]

\* a * b
NumMul(a, b) ==
    IF a = NaN \/ b = NaN THEN NaN
    ELSE LET m == RoundToDouble(BMul(a.mag, b.mag), FALSE)
         IN [neg |-> a.neg # b.neg /\ m # <<>>, mag |-> m]

\* The double x / y for integers x >= 0, y > 0, as m * 2^(-f): the quotient
\* rounded to 53 significant bits.
Quotient(x, y) ==
    LET Scaled(qr2, f) ==
            LET twice == ShiftLeft(qr2.r, 1)
                up == BLess(y, twice) \/ (twice = y /\ IsOdd(qr2.q))
            IN [m |-> IF up THEN BAdd(qr2.q, <<1>>) ELSE qr2.q, f |-> f]
        From(qr, f) ==
            IF f < 0 THEN [m |-> RoundToDouble(qr.q, qr.r # <<>>), f |-> 0]
            ELSE Scaled(BDivMod(ShiftLeft(x, f), y), f)
        Whole(qr) == From(qr, PrecisionBits - BitLen(qr.q))
    IN Whole(BDivMod(x, y))

\* Math.floor(a / b) for Numbers a, b holding integers, b # 0
FloorDiv(a, b) ==
    IF a = NaN \/ b = NaN THEN NaN
    ELSE LET Floor(v, whole) ==
                 IF a.neg = b.neg \/ v.m = <<>> THEN [neg |-> FALSE, mag |-> whole]
                 ELSE [neg |-> TRUE,
                       mag |-> IF ShiftLeft(whole, v.f) # v.m THEN BAdd(whole, <<1>>)
                               ELSE whole]
             Of(v) == Floor(v, ShiftRight(v.m, v.f))
         IN Of(Quotient(a.mag, b.mag))

\* a + b for Numbers holding integers
NumAdd(a, b) ==
    IF a = NaN \/ b = NaN THEN NaN ELSE NumSub(a, [neg |-> ~b.neg /\ b.mag # <<>>, mag |-> b.mag])

\* What a function call ends with: a returned value or a thrown error.
Return(v) == [threw |-> FALSE, value |-> v]
Throw(message) == [threw |-> TRUE, error |-> message]

\* ethers' coders, type uint256: a string of decimal digits encodes; for a Number
\* getBigInt throws when it is not an integer ("underflow") or exceeds
\* Number.MAX_SAFE_INTEGER ("overflow"), the coder when it is negative ("value
\* out-of-bounds"); "ok" when the value encodes.
uint256(x) ==
    IF "digits" \in DOMAIN x
    THEN (IF BitLen(x.digits) > 256 THEN "value out-of-bounds" ELSE "ok")
    ELSE IF x = NaN THEN "underflow"
    ELSE IF "mag" \notin DOMAIN x THEN "invalid BigNumberish value"
    ELSE IF BitLen(x.mag) > PrecisionBits THEN "overflow"
    ELSE IF x.neg THEN "value out-of-bounds"
    ELSE "ok"

\* ethers' getAddress: the strings that are addresses.
Addresses == Users \cup {Deployer, Ledger}
address(a) == IF a \in Addresses THEN "ok" ELSE "invalid address"

\* ------------------------------------------------------------ the oracle application
SECONDS_PER_YEAR == 365 * 24 * 60 * 60

\* calculateRewards(stakeData, currentTimestamp, baseAPY); randomNonce is what
\* crypto.randomBytes(32) returns.
calculateRewards(stakeData, currentTimestamp, baseAPY, randomNonce) ==
    IF stakeData \in {JsNull, Undefined} THEN Throw("TypeError")
    ELSE
    LET timeStaked == NumSub(ToNumber(currentTimestamp), ToNumber(stakeData.stakeTimestamp))
        Proved(rewards, proofData) ==
            IF address(proofData.userAddress) # "ok" THEN Throw(address(proofData.userAddress))
            ELSE IF uint256(proofData.rewards) # "ok" THEN Throw(uint256(proofData.rewards))
            ELSE IF uint256(proofData.timestamp) # "ok"
                 THEN Throw(uint256(proofData.timestamp))
            ELSE Return([rewards |-> rewards,
                         proofHash |-> <<"keccak", proofData.userAddress, proofData.rewards,
                                         proofData.timestamp, proofData.nonce>>,
                         proofData |-> proofData])
        Computed(rewards) ==
            Proved(rewards, [userAddress |-> stakeData.userAddress, rewards |-> rewards,
                             timestamp |-> currentTimestamp, nonce |-> randomNonce])
    IN Computed(FloorDiv(NumMul(NumMul(ToNumber(stakeData.amount), ToNumber(baseAPY)),
                                timeStaked),
                         NumMul(Num(10000), Num(SECONDS_PER_YEAR))))

\* The requests the application is run with.
MaxEther == 3
Ether == BMul(Big(1000000000), Big(1000000000))
Day == 24 * 60 * 60
AmountsIn ==
    {Num(0), Num(1000000)} \cup {[neg |-> FALSE, mag |-> BMul(Big(k), Ether)] : k \in 1 .. MaxEther}
BaseAPYs == {Num(0), Num(1), Num(500), Num(520)}
StakeTimestamps == {0, 1700000000}
Durations == {0 - Day, -1, 0, 1, Day, 30 * Day, 100 * Day, SECONDS_PER_YEAR}
RandomNonces == {"n1", "n2"}
Requests ==
    {[stakeData |-> [amount |-> a, stakeTimestamp |-> Num(t[1]), userAddress |-> "alice"],
      currentTimestamp |-> Num(t[2]), baseAPY |-> apy] :
        a \in AmountsIn, apy \in BaseAPYs,
        t \in {<<t0, t0 + d>> : t0 \in StakeTimestamps, d \in Durations} \cap (Nat \X Nat)}

\* The application before it is given a request.
IdleApp == [done |-> FALSE]

\* ------------------------------------------------------------ the state machine
NoCall == [op |-> "none", sender |-> "-", amount |-> 0, arg |-> "-",
           signature |-> NoSig, err |-> "ok"]
Call(op, sender, amount, arg, signature, err) ==
    [op |-> op, sender |-> sender, amount |-> amount, arg |-> arg,
     signature |-> signature, err |-> err]

\* DeployScript.run: both contracts constructed, the token wired to the ledger;
\* the oracle address is still unset.  Test accounts are funded with the asset.
DeployedWith(funds, allowance) ==
    /\ teeOracle = Zero
    /\ totalStaked = 0
    /\ stakeCommitments = {}
    /\ userCommitments = [u \in Users |-> <<>>]
    /\ claimedRewards = {}
    /\ nonces = [u \in Users |-> 0]
    /\ assetBal = [h \in AssetHolders |-> IF h = Ledger THEN 0 ELSE funds]
    /\ assetAllow = [u \in Users |-> allowance]
    /\ plsBal = [u \in Users |-> 0]
    /\ plsSupply = 0
    /\ plsStakingContract = Ledger
    /\ positions = {}
    /\ claimLog = {}
    /\ oracleLog = {}
    /\ status = "NOT_ENTERED"
    /\ frames = <<>>
    /\ txCount = 0
    /\ last = NoCall

Deployed == DeployedWith(InitBalance, 0)

Init == Deployed /\ iapp = IdleApp

\* The storage a call leaves is written when its transaction is committed.
Write(st) ==
    /\ txCount < MaxTx
    /\ txCount' = txCount + 1
    /\ teeOracle' = st.teeOracle
    /\ totalStaked' = st.totalStaked
    /\ stakeCommitments' = st.stakeCommitments
    /\ userCommitments' = st.userCommitments
    /\ claimedRewards' = st.claimedRewards
    /\ nonces' = st.nonces
    /\ assetBal' = st.assetBal
    /\ assetAllow' = st.assetAllow
    /\ plsBal' = st.plsBal
    /\ plsSupply' = st.plsSupply
    /\ plsStakingContract' = st.plsStakingContract

Store(st) == Write(st) /\ UNCHANGED iapp

\* A transaction whose call ran to its end: the guard is released again and no
\* call is left in progress.
Commit(st) ==
    /\ Store(st)
    /\ UNCHANGED <<status, frames>>

\* The signatures a claim is submitted with: oracle signatures that differ from
\* the claim being made in at most one signed field, and two byte strings that
\* are no signature.
RewardData(claimant, amount, proofHash, nonce, chain, ledger) ==
    [userAddress |-> claimant, amount |-> amount, proofHash |-> proofHash,
     nonce |-> nonce, chainId |-> chain, contractAddress |-> ledger]

\* The signatures a claim is submitted with: oracle signatures over this claim,
\* made with either key over any nonce, and two byte strings that are no signature.
SubmittedSigs(sender, amount, proofHash) ==
    {signRewardClaim(RewardData(sender, amount, proofHash, n, ChainId, Ledger), k) :
        n \in 0 .. MaxNonce, k \in OracleKeys}
    \cup {MalformedSig, ShortSig}

\* A reverted call changes no storage and emits no event: a call is a step of
\* the machine when it succeeds.
Stake(sender, amount, salt) ==
    \E r \in {stake(Cur, sender, amount, salt)} :
        /\ r.err = "ok"
        /\ Commit(r.st)
        /\ positions' = positions \cup {<<sender, amount, salt>>}
        /\ last' = Call("stake", sender, amount, salt, NoSig, r.err)
        /\ UNCHANGED <<claimLog, oracleLog>>

Unstake(sender, amount, salt) ==
    \E r \in {unstake(Cur, sender, amount, salt)} :
        /\ r.err = "ok"
        /\ Commit(r.st)
        /\ positions' = positions \ {<<sender, amount, salt>>}
        /\ last' = Call("unstake", sender, amount, salt, NoSig, r.err)
        /\ UNCHANGED <<claimLog, oracleLog>>

ClaimRewards(sender, amount, proofHash, signature) ==
    \E r \in {claimRewards(Cur, sender, amount, proofHash, signature)} :
        /\ r.err = "ok"
        /\ Commit(r.st)
        /\ claimLog' = claimLog \cup {[claimant |-> sender, amount |-> amount,
                                       proofHash |-> proofHash, nonce |-> nonces[sender]]}
        /\ last' = Call("claimRewards", sender, amount, proofHash, signature, r.err)
        /\ UNCHANGED <<positions, oracleLog>>

SetTEEOracle(sender, newOracle) ==
    \E r \in {setTEEOracle(Cur, sender, newOracle)} :
        /\ r.err = "ok"
        /\ Commit(r.st)
        /\ oracleLog' = oracleLog \cup {newOracle}
        /\ last' = Call("setTEEOracle", sender, 0, newOracle, NoSig, r.err)
        /\ UNCHANGED <<positions, claimLog>>

SetStakingContract(sender, newContract) ==
    \E r \in {setStakingContract(Cur, sender, newContract)} :
        /\ r.err = "ok"
        /\ Commit(r.st)
        /\ last' = Call("setStakingContract", sender, 0, newContract, NoSig, r.err)
        /\ UNCHANGED <<positions, claimLog, oracleLog>>

\* stakingAsset.approve(ledger, amount) by a user
Approve(sender, amount) ==
    /\ Commit([Cur EXCEPT !.assetAllow[sender] = amount])
    /\ last' = Call("approve", sender, amount, Ledger, NoSig, "ok")
    /\ UNCHANGED <<positions, claimLog, oracleLog>>

\* plsToken.transfer(to, amount) by a holder of receipt tokens
TransferPLS(sender, to, amount) ==
    /\ amount > 0
    /\ plsBal[sender] >= amount
    /\ Commit([Cur EXCEPT !.plsBal = [[@ EXCEPT ![sender] = @ - amount]
                                         EXCEPT ![to] = @ + amount]])
    /\ last' = Call("transferPLS", sender, amount, to, NoSig, "ok")
    /\ UNCHANGED <<positions, claimLog, oracleLog>>

\* stakingAsset.transfer(ledger, amount) by a user, outside stake
TransferAsset(sender, amount) ==
    /\ amount > 0
    /\ assetBal[sender] >= amount
    /\ Commit([Cur EXCEPT !.assetBal = [[@ EXCEPT ![sender] = @ - amount]
                                           EXCEPT ![Ledger] = @ + amount]])
    /\ last' = Call("transferAsset", sender, amount, Ledger, NoSig, "ok")
    /\ UNCHANGED <<positions, claimLog, oracleLog>>

Next ==
    \/ \E u \in Users, a \in Amounts, s \in Salts : Stake(u, a, s)
    \/ \E u \in Users, a \in Amounts, s \in Salts : Unstake(u, a, s)
    \/ \E u \in Users, a \in RewardAmounts, h \in ProofHashes :
          \E sig \in SubmittedSigs(u, a, h) : ClaimRewards(u, a, h, sig)
    \/ \E c \in Callers, o \in OracleChoices : SetTEEOracle(c, o)
    \/ \E c \in Callers, k \in {Ledger, OtherLedger, Zero} : SetStakingContract(c, k)
    \/ \E u \in Users, a \in 1 .. MaxAmount : Approve(u, a)
    \/ \E u \in Users, v \in Users, a \in Amounts : u # v /\ TransferPLS(u, v, a)
    \/ \E u \in Users : TransferAsset(u, 1)

Spec == Init /\ [][Next]_vars

\* ------------------------------------------------------------ C1 .. C6: staking
\* The storage a reverted call leaves, with its revert reason.
Rejected(r, reason) == r.err = reason /\ r.st = Cur

\* C1: round trip.  In every reachable state, for every owner, amount and salt
\* for which stake succeeds, the unstake of the same (amount, salt) by the same
\* owner right after it succeeds and restores the owner's and the ledger's
\* asset balance, the owner's receipt balance, totalStaked, the commitment's
\* flag (false) and the owner's commitment count.
C1_RoundTrip ==
    \A u \in Users, a \in Amounts, s \in Salts :
        \A r1 \in {stake(Cur, u, a, s)} :
            r1.err = "ok" =>
                \A r2 \in {unstake(r1.st, u, a, s)} :
                    /\ r2.err = "ok"
                    /\ r2.st.assetBal[u] = assetBal[u]
                    /\ r2.st.assetBal[Ledger] = assetBal[Ledger]
                    /\ r2.st.plsBal[u] = plsBal[u]
                    /\ r2.st.totalStaked = totalStaked
                    /\ ~commitmentExists(Cur, r1.ret)
                    /\ ~commitmentExists(r2.st, r1.ret)
                    /\ Len(r2.st.userCommitments[u]) = Len(userCommitments[u])

\* A stake has just been committed and the unstake of the same position succeeds.
C1_Witness ==
    /\ last.op = "stake"
    /\ unstake(Cur, last.sender, last.amount, last.arg).err = "ok"
    /\ Len(userCommitments[last.sender]) = 2

\* C2: while an owner's position (amount, salt) is active (its commitment is
\* present), a further
\* stake(amount, salt) by that owner reverts with CommitmentAlreadyExists and
\* changes no balance, no commitment flag or list and not totalStaked.
C2_DuplicateStakeRejected ==
    \A u \in Users, a \in Amounts, s \in Salts :
        (<<u, a, s>> \in positions \/ Commitment(a, s, u) \in stakeCommitments) =>
            Rejected(stake(Cur, u, a, s), "CommitmentAlreadyExists")

\* A stake has just been committed, the caller could pay for a second one, and
\* the second stake of the same (amount, salt) is rejected as a duplicate.
C2_Witness ==
    /\ last.op = "stake"
    /\ assetAllow[last.sender] >= last.amount
    /\ assetBal[last.sender] >= last.amount
    /\ stake(Cur, last.sender, last.amount, last.arg).err = "CommitmentAlreadyExists"

\* C3: unstake(amount, salt) by a caller who holds no active position
\* (amount, salt), or whose commitment for it is not present, reverts with CommitmentNotFound and changes nothing.
C3_UnknownUnstakeRejected ==
    \A u \in Users, a \in Amounts, s \in Salts :
        (<<u, a, s>> \notin positions \/ Commitment(a, s, u) \notin stakeCommitments) =>
            Rejected(unstake(Cur, u, a, s), "CommitmentNotFound")

\* An unstake has just been committed and the caller still holds receipt tokens
\* and another position; unstaking the same position again is rejected.
C3_Witness ==
    /\ last.op = "unstake"
    /\ plsBal[last.sender] >= last.amount
    /\ userCommitments[last.sender] # <<>>
    /\ unstake(Cur, last.sender, last.amount, last.arg).err = "CommitmentNotFound"

\* C4: stake(0, salt) reverts with ZeroAmount for every caller and salt and
\* changes nothing.
C4_ZeroStakeRejected ==
    \A u \in Users, s \in Salts : Rejected(stake(Cur, u, 0, s), "ZeroAmount")

\* The caller has approved the ledger and holds assets, and a zero stake is rejected.
C4_Witness ==
    /\ last.op = "approve"
    /\ assetAllow[last.sender] > 0
    /\ assetBal[last.sender] > 0
    /\ stake(Cur, last.sender, 0, "s1").err = "ZeroAmount"

\* C5: when A holds an active position (amount, salt) and another address B
\* holds none for the same (amount, salt), unstake(amount, salt) by B reverts
\* with CommitmentNotFound; A's commitment stays present and no asset moves.
C5_OnlyOwnerUnstakes ==
    \A A \in Users, B \in Users, a \in Amounts, s \in Salts :
        (A # B /\ <<A, a, s>> \in positions /\ <<B, a, s>> \notin positions) =>
            /\ Rejected(unstake(Cur, B, a, s), "CommitmentNotFound")
            /\ commitmentExists(Cur, Commitment(a, s, A))

\* A holds a position, B holds enough receipt tokens to burn its amount, and
\* B's unstake of A's (amount, salt) is rejected.
C5_Witness ==
    \E A \in Users, B \in Users, a \in Amounts, s \in Salts :
        /\ A # B
        /\ <<A, a, s>> \in positions
        /\ <<B, a, s>> \notin positions
        /\ plsBal[B] >= a
        /\ last.op = "transferPLS"
        /\ unstake(Cur, B, a, s).err = "CommitmentNotFound"

\* C6: every step that decreases the ledger's asset balance is an unstake
\* (amount, salt) by a caller who holds the active position (amount, salt); the
\* decrease is amount and the caller's asset balance grows by amount.
C6_OnlyUnstakeReleases ==
    [][assetBal'[Ledger] < assetBal[Ledger] =>
          /\ last'.op = "unstake"
          /\ <<last'.sender, last'.amount, last'.arg>> \in positions
          /\ assetBal[Ledger] - assetBal'[Ledger] = last'.amount
          /\ assetBal'[last'.sender] = assetBal[last'.sender] + last'.amount]_vars

\* An unstake has been committed and has released assets to its caller.
C6_Witness ==
    /\ last.op = "unstake"
    /\ last.amount > 0
    /\ assetBal[last.sender] >= last.amount

\* ------------------------------------------------------------ C7 .. C10: claims
\* The oracle key's signature over a claim, as signRewardClaim builds it.
OracleSig(claimant, amount, proofHash, nonce, key) ==
    signRewardClaim(RewardData(claimant, amount, proofHash, nonce, ChainId, Ledger), key)

\* What a caller may submit as the signature of a claim: signatures of either
\* key over the claim at any nonce, the configured oracle's signature made for
\* the other user, another chain or another ledger, and the two byte strings
\* that are no signature.
AnySigs(sender, amount, proofHash) ==
    {OracleSig(sender, amount, proofHash, n, k) : n \in 0 .. MaxNonce, k \in OracleKeys}
    \cup {OracleSig(c, amount, proofHash, nonces[c], teeOracle) : c \in Users \ {sender}}
    \cup {signRewardClaim(RewardData(sender, amount, proofHash, nonces[sender], ch, l),
                          teeOracle) :
            <<ch, l>> \in {<<OtherChain, Ledger>>, <<ChainId, OtherLedger>>}}
    \cup {MalformedSig, ShortSig}

\* C7: with a non-zero oracle address, a claim of an unclaimed proofHash that
\* carries the oracle key's signature over (claimant, amount, proofHash,
\* nonces[claimant], chainId, ledger) succeeds, marks proofHash claimed,
\* increments the claimant's nonce and mints exactly amount to the claimant.
C7_ValidClaimSucceeds ==
    \A c \in Users, a \in Amounts, h \in ProofHashes :
        (teeOracle # Zero /\ h \notin claimedRewards) =>
            \A r \in {claimRewards(Cur, c, a, h, OracleSig(c, a, h, nonces[c], teeOracle))} :
                /\ r.err = "ok"
                /\ r.st.claimedRewards = claimedRewards \cup {h}
                /\ r.st.nonces = [nonces EXCEPT ![c] = @ + 1]
                /\ r.st.plsBal = [plsBal EXCEPT ![c] = @ + a]

\* The statement of C7 for the states in which the receipt token is still wired
\* to the ledger (PLSToken.stakingContract = ledger): there it holds.
C7_HoldsWhileWired ==
    \A c \in Users, a \in Amounts, h \in ProofHashes :
        (teeOracle # Zero /\ h \notin claimedRewards /\ plsStakingContract = Ledger) =>
            \A r \in {claimRewards(Cur, c, a, h, OracleSig(c, a, h, nonces[c], teeOracle))} :
                /\ r.err = "ok"
                /\ r.st.claimedRewards = claimedRewards \cup {h}
                /\ r.st.nonces = [nonces EXCEPT ![c] = @ + 1]
                /\ r.st.plsBal = [plsBal EXCEPT ![c] = @ + a]

\* C8: each proofHash is accepted at most once: no two RewardsClaimed events
\* carry the same proofHash, and once a claim of h has succeeded every claim of
\* h, by any claimant with any amount and signature, reverts with
\* AlreadyClaimed and changes nothing.
C8_ProofHashOnce ==
    /\ \A x \in claimLog, y \in claimLog : x.proofHash = y.proofHash => x = y
    /\ \A x \in claimLog, c \in Users, a \in Amounts :
          \A sig \in AnySigs(c, a, x.proofHash) :
              Rejected(claimRewards(Cur, c, a, x.proofHash, sig), "AlreadyClaimed")

\* A claim has just succeeded and the other user's claim of the same proofHash,
\* validly signed by the configured oracle, is rejected as already claimed.
C8_Witness ==
    /\ last.op = "claimRewards"
    /\ teeOracle \in OracleKeys
    /\ \E c \in Users \ {last.sender} :
          claimRewards(Cur, c, 1, last.arg,
                       OracleSig(c, 1, last.arg, nonces[c], teeOracle)).err = "AlreadyClaimed"

\* C9: a signature of the configured oracle over (c, amount, proofHash, n,
\* chainId, ledger) with n other than nonces[c] is rejected with
\* InvalidSignature when proofHash is unclaimed, and changes nothing.
C9_StaleNonceRejected ==
    \A c \in Users, a \in Amounts, h \in ProofHashes, n \in 0 .. MaxNonce :
        (teeOracle \in OracleKeys /\ h \notin claimedRewards /\ n # nonces[c]) =>
            Rejected(claimRewards(Cur, c, a, h, OracleSig(c, a, h, n, teeOracle)),
                     "InvalidSignature")

\* A claim by c signed over nonce 0 has just succeeded, and a signature of the
\* oracle over nonce 0 for another, unclaimed proofHash is rejected.
C9_Witness ==
    /\ last.op = "claimRewards"
    /\ teeOracle \in OracleKeys
    /\ last.signature = OracleSig(last.sender, last.amount, last.arg, 0, teeOracle)
    /\ nonces[last.sender] = 1
    /\ \E h \in ProofHashes \ claimedRewards :
          claimRewards(Cur, last.sender, last.amount, h,
                       OracleSig(last.sender, last.amount, h, 0, teeOracle)).err
              = "InvalidSignature"

\* C10: nonces[c] starts at 0, grows by exactly 1 in a successful claimRewards
\* by c and is changed by no other step, and always equals the number of
\* successful claims by c.
C10_NonceMachine ==
    /\ \A c \in Users : nonces[c] = 0
    /\ [][\A c \in Users :
            nonces'[c] = IF last'.op = "claimRewards" /\ last'.sender = c
                         THEN nonces[c] + 1 ELSE nonces[c]]_vars
    /\ [](\A c \in Users :
            nonces[c] = Cardinality({x \in claimLog : x.claimant = c}))

\* The same claimant has claimed twice.
C10_Witness ==
    /\ last.op = "claimRewards"
    /\ nonces[last.sender] = 2
    /\ txCount > 2

\* ------------------------------------------------------------ C11 .. C13: the oracle address
\* The 65-byte signatures a claim of (sender, amount, proofHash) is submitted
\* with: either key's signature over the claim at any nonce, and 65 bytes from
\* which ecrecover yields address(0).
Sigs65(sender, amount, proofHash) ==
    {OracleSig(sender, amount, proofHash, n, k) : n \in 0 .. MaxNonce, k \in OracleKeys}
    \cup {MalformedSig}

\* C11: while teeOracle is the zero address (never set, or set back to zero),
\* claimRewards fails and changes nothing (mints nothing) for every caller,
\* amount, proofHash and 65-byte signature, the signatures from which signer
\* recovery yields the zero address included.
C11_UnsetOracleRejectsAll ==
    teeOracle = Zero =>
        \A c \in Users, a \in Amounts, h \in ProofHashes :
            \A sig \in Sigs65(c, a, h) :
                \A r \in {claimRewards(Cur, c, a, h, sig)} :
                    r.err # "ok" /\ r.st = Cur

\* The statement of C11 for the signatures made with a key: there it holds.
C11_HoldsForKeySignatures ==
    teeOracle = Zero =>
        \A c \in Users, a \in Amounts, h \in ProofHashes :
            \A sig \in Sigs65(c, a, h) \ {MalformedSig} :
                \A r \in {claimRewards(Cur, c, a, h, sig)} :
                    r.err # "ok" /\ r.st = Cur

\* C12: a claim of an unclaimed proofHash signed by a key other than the
\* configured oracle's, over any nonce (the claimant's current one included),
\* reverts with InvalidSignature and changes nothing.  This covers the key of an
\* oracle that was configured before setTEEOracle replaced it.
C12_OtherKeyRejected ==
    \A k \in OracleKeys \ {teeOracle}, c \in Users, a \in {1, MaxAmount},
       h \in ProofHashes \ claimedRewards, n \in 0 .. MaxNonce :
        \A r \in {claimRewards(Cur, c, a, h, OracleSig(c, a, h, n, k))} :
            Rejected(r, "InvalidSignature")

\* setTEEOracle has just replaced an oracle that was configured before, and a
\* claim signed by the replaced oracle over the claimant's current nonce and an
\* unclaimed proofHash is rejected.
C12_Witness ==
    /\ last.op = "setTEEOracle"
    /\ teeOracle \in OracleKeys
    /\ \E k \in (oracleLog \cap OracleKeys) \ {teeOracle}, c \in Users,
          h \in ProofHashes \ claimedRewards :
          claimRewards(Cur, c, 1, h, OracleSig(c, 1, h, nonces[c], k)).err
              = "InvalidSignature"

\* C13: setTEEOracle called by any principal other than the owner reverts
\* (OwnableUnauthorizedAccount) and changes nothing; called by the owner it
\* succeeds and sets teeOracle to the given address, changing nothing else.
\* Every step that changes teeOracle is a setTEEOracle call of the owner.
C13_OnlyOwnerSetsOracle ==
    /\ [](\A c \in Callers, o \in OracleChoices :
            \A r \in {setTEEOracle(Cur, c, o)} :
                IF c = Deployer
                THEN r.err = "ok" /\ r.st = [Cur EXCEPT !.teeOracle = o]
                ELSE Rejected(r, "OwnableUnauthorizedAccount"))
    /\ [][teeOracle' # teeOracle =>
            /\ last'.op = "setTEEOracle"
            /\ last'.sender = Deployer
            /\ teeOracle' = last'.arg]_vars

\* The owner has just set the oracle to a key's address, and a user's call to
\* unset it is rejected.
C13_Witness ==
    /\ last.op = "setTEEOracle"
    /\ last.sender = Deployer
    /\ teeOracle = last.arg
    /\ teeOracle \in OracleKeys
    /\ \E u \in Users : setTEEOracle(Cur, u, Zero).err = "OwnableUnauthorizedAccount"

\* ------------------------------------------------------------ C14: the reentrancy guard
\* stake, unstake and claimRewards carry the modifier nonReentrant.  Here a
\* guarded call is entered, runs (its external calls to the asset and the
\* receipt token may call back into the ledger) and exits.
\* _nonReentrantBefore: the call may proceed unless the guard is taken
nonReentrantOff(guard) == TRUE
nonReentrantBefore(guard) == guard # "ENTERED"

\* The guarded calls made at top level and from callbacks.
GuardedCalls ==
    {Call("stake", u, 1, "s1", NoSig, "ok") : u \in Users}
    \cup {Call("unstake", u, 1, "s1", NoSig, "ok") : u \in Users}
    \cup {Call("claimRewards", u, 1, "p1", OracleSig(u, 1, "p1", 0, "tee1"), "ok") :
            u \in Users}

\* The body of a guarded function.
Body(st, call) ==
    CASE call.op = "stake" -> stake(st, call.sender, call.amount, call.arg)
      [] call.op = "unstake" -> unstake(st, call.sender, call.amount, call.arg)
      [] call.op = "claimRewards" ->
            claimRewards(st, call.sender, call.amount, call.arg, call.signature)

\* A transaction calls a guarded function: the guard is free and is taken.
Enter(call) ==
    /\ frames = <<>>
    /\ txCount < MaxTx
    /\ nonReentrantBefore(status)
    /\ status' = "ENTERED"
    /\ frames' = <<call>>
    /\ UNCHANGED <<ledgerVars, positions, claimLog, oracleLog, iapp, txCount, last>>

\* While a guarded call is in progress, one of its external calls calls back
\* into a guarded function: the nested call reverts unless the guard lets it in.
Reenter(call) ==
    /\ frames # <<>>
    /\ IF nonReentrantBefore(status)
       THEN /\ status' = "ENTERED"
            /\ frames' = Append(frames, call)
            /\ UNCHANGED last
       ELSE /\ last' = [call EXCEPT !.err = "ReentrancyGuardReentrantCall"]
            /\ UNCHANGED <<status, frames>>
    /\ UNCHANGED <<ledgerVars, positions, claimLog, oracleLog, iapp, txCount>>

\* The innermost call in progress runs to its end: its effects are stored, or
\* it reverts, and _nonReentrantAfter releases the guard.
Exit ==
    /\ frames # <<>>
    /\ status' = "NOT_ENTERED"
    /\ frames' = SubSeq(frames, 1, Len(frames) - 1)
    /\ \E call \in {frames[Len(frames)]} : \E r \in {Body(Cur, call)} :
          IF r.err = "ok"
          THEN /\ Store(r.st)
               /\ positions' =
                     IF call.op = "stake"
                     THEN positions \cup {<<call.sender, call.amount, call.arg>>}
                     ELSE IF call.op = "unstake"
                     THEN positions \ {<<call.sender, call.amount, call.arg>>}
                     ELSE positions
               /\ claimLog' =
                     IF call.op = "claimRewards"
                     THEN claimLog \cup {[claimant |-> call.sender, amount |-> call.amount,
                                          proofHash |-> call.arg,
                                          nonce |-> nonces[call.sender]]}
                     ELSE claimLog
               /\ last' = call
               /\ UNCHANGED oracleLog
          ELSE /\ last' = [call EXCEPT !.err = r.err]
               /\ UNCHANGED <<ledgerVars, positions, claimLog, oracleLog, iapp, txCount>>

NextReentrancy ==
    \/ \E call \in GuardedCalls : Enter(call)
    \/ \E call \in GuardedCalls : Reenter(call)
    \/ Exit
    \/ frames = <<>> /\ \E u \in Users : Approve(u, 1)
    \/ frames = <<>> /\ SetTEEOracle(Deployer, "tee1")

SpecReentrancy == Init /\ [][NextReentrancy]_vars

\* C14: no two guarded ledger calls are ever in progress at once; while one is
\* in progress the guard is taken, so that every nested call into stake,
\* unstake or claimRewards reverts at once, leaving the storage as it was.
C14_NoReentrancy ==
    /\ [](Len(frames) <= 1)
    /\ [](frames # <<>> <=> status = "ENTERED")
    /\ [][(frames # <<>> /\ frames' = frames) =>
            /\ last'.err = "ReentrancyGuardReentrantCall"
            /\ UNCHANGED <<ledgerVars, status>>]_vars

\* A stake is in progress and a nested call of unstake by the same caller has
\* just been rejected by the guard.
C14_Witness ==
    /\ Len(frames) = 1
    /\ frames[1].op = "stake"
    /\ last.op = "unstake"
    /\ last.sender = frames[1].sender
    /\ last.err = "ReentrancyGuardReentrantCall"

\* ------------------------------------------------------------ C15 .. C18: stake and unstake
\* C15: a successful stake(amount, salt) moves exactly amount of the asset from
\* the caller to the ledger, adds amount to totalStaked, mints amount receipt
\* tokens to the caller (and to nobody else), turns the commitment from absent
\* to present, appends it to the caller's list and returns it; a second
\* successful stake with another salt leaves both commitments present, the
\* count two higher and the receipt balance higher by the sum of the amounts.
C15_StakeEffects ==
    \A u \in Users, a \in Amounts, s \in Salts :
        \A r1 \in {stake(Cur, u, a, s)} :
            r1.err = "ok" =>
                /\ r1.st.assetBal = [[assetBal EXCEPT ![u] = @ - a] EXCEPT ![Ledger] = @ + a]
                /\ assetBal[u] >= a
                /\ r1.st.totalStaked = totalStaked + a
                /\ r1.st.plsBal = [plsBal EXCEPT ![u] = @ + a]
                /\ r1.st.plsSupply = plsSupply + a
                /\ r1.ret \notin stakeCommitments
                /\ r1.st.stakeCommitments = stakeCommitments \cup {r1.ret}
                /\ r1.st.userCommitments =
                       [userCommitments EXCEPT ![u] = Append(@, r1.ret)]
                /\ r1.ret = Commitment(a, s, u)
                /\ \A a2 \in Amounts, s2 \in Salts \ {s} :
                      \A r2 \in {stake(r1.st, u, a2, s2)} :
                          r2.err = "ok" =>
                              /\ r2.ret # r1.ret
                              /\ {r1.ret, r2.ret} \subseteq r2.st.stakeCommitments
                              /\ Len(r2.st.userCommitments[u]) = Len(userCommitments[u]) + 2
                              /\ r2.st.plsBal[u] = plsBal[u] + a + a2

\* A user has staked twice with two salts and nothing else has happened to the
\* ledger's books: two commitments, count 2, receipt balance the sum staked.
C15_Witness ==
    /\ last.op = "stake"
    /\ \E s \in Salts \ {last.arg}, a \in Amounts :
          /\ {<<last.sender, a, s>>, <<last.sender, last.amount, last.arg>>} = positions
          /\ userCommitments[last.sender] =
                 <<Commitment(a, s, last.sender),
                   Commitment(last.amount, last.arg, last.sender)>>
          /\ plsBal[last.sender] = a + last.amount
          /\ totalStaked = a + last.amount
          /\ assetBal[Ledger] = a + last.amount

\* C16: for distinct owners A and B and any amounts and salts (the same ones
\* included), a stake by A and a stake by B return different commitments, and
\* B's stake reverts with CommitmentAlreadyExists only when B itself holds the
\* position: an active commitment of A never makes it fail as a duplicate.
C16_NoCrossOwnerCollision ==
    /\ \A B \in Users, a \in Amounts, s \in Salts :
          stake(Cur, B, a, s).err = "CommitmentAlreadyExists" => <<B, a, s>> \in positions
    /\ \A A \in Users, a \in Amounts, s \in Salts :
          \A r1 \in {stake(Cur, A, a, s)} :
              r1.err = "ok" =>
                  \A B \in Users \ {A}, a2 \in Amounts, s2 \in Salts :
                      \A r2 \in {stake(r1.st, B, a2, s2)} :
                          /\ (r2.err = "CommitmentAlreadyExists" =>
                                 <<B, a2, s2>> \in positions)
                          /\ (r2.err = "ok" => r2.ret # r1.ret)

\* B has just staked the (amount, salt) of a position A holds; both commitments
\* are present and differ.
C16_Witness ==
    /\ last.op = "stake"
    /\ \E A \in Users \ {last.sender} :
          /\ <<A, last.amount, last.arg>> \in positions
          /\ Commitment(last.amount, last.arg, A) \in stakeCommitments
          /\ Commitment(last.amount, last.arg, last.sender) \in stakeCommitments
          /\ Cardinality(stakeCommitments) = 2

\* C17: a step changes the set of present commitments only if it is a
\* successful stake, which turns exactly one commitment (the caller's) from
\* absent to present, or a successful unstake, which turns exactly one from
\* present to absent; every successful stake and unstake does so.  claimRewards
\* and setTEEOracle, whether they succeed or revert, leave every commitment
\* flag, every owner's list and totalStaked as they were.
C17_CommitmentLifecycle ==
    /\ [][/\ stakeCommitments' # stakeCommitments => last'.op \in {"stake", "unstake"}
          /\ (txCount' # txCount /\ last'.op = "stake") =>
                \E c \in {Commitment(last'.amount, last'.arg, last'.sender)} :
                    /\ c \notin stakeCommitments
                    /\ stakeCommitments' = stakeCommitments \cup {c}
          /\ (txCount' # txCount /\ last'.op = "unstake") =>
                \E c \in {Commitment(last'.amount, last'.arg, last'.sender)} :
                    /\ c \in stakeCommitments
                    /\ stakeCommitments' = stakeCommitments \ {c}
          /\ (txCount' # txCount /\ last'.op \in {"claimRewards", "setTEEOracle"}) =>
                UNCHANGED <<stakeCommitments, userCommitments, totalStaked>>]_vars
    /\ [](\A c \in Users, a \in {1, MaxAmount}, h \in ProofHashes :
             \A sig \in {OracleSig(c, a, h, nonces[c], k) : k \in OracleKeys}
                        \cup {MalformedSig, ShortSig} :
                 \A r \in {claimRewards(Cur, c, a, h, sig)} :
                     /\ r.st.stakeCommitments = stakeCommitments
                     /\ r.st.userCommitments = userCommitments
                     /\ r.st.totalStaked = totalStaked)
    /\ [](\A c \in Callers, o \in OracleChoices :
             \A r \in {setTEEOracle(Cur, c, o)} :
                 /\ r.st.stakeCommitments = stakeCommitments
                 /\ r.st.userCommitments = userCommitments
                 /\ r.st.totalStaked = totalStaked)

\* A claim has just succeeded under a configured oracle while one position is
\* active: its commitment is still present, listed, and counted in totalStaked.
C17_Witness ==
    /\ last.op = "claimRewards"
    /\ teeOracle \in OracleKeys
    /\ \E u \in Users, a \in Amounts, s \in Salts :
          /\ positions = {<<u, a, s>>}
          /\ stakeCommitments = {Commitment(a, s, u)}
          /\ userCommitments[u] = <<Commitment(a, s, u)>>
          /\ totalStaked = a

\* C18: a stake of a positive amount under a fresh commitment whose asset pull
\* fails (allowance or balance below amount) reverts with the asset's error and
\* changes nothing; an unstake of a position its caller holds whose burn fails
\* (receipt balance below amount) reverts and changes nothing, so that the
\* commitment stays present, and once the receipt tokens are back with the
\* caller (the token still wired to the ledger) the same unstake succeeds.
C18_ExternalFailureAtomic ==
    /\ \A u \in Users, a \in Amounts \ {0}, s \in Salts :
          (<<u, a, s>> \notin positions /\ (assetAllow[u] < a \/ assetBal[u] < a)) =>
              \A r \in {stake(Cur, u, a, s)} :
                  /\ r.err \in {"ERC20InsufficientAllowance", "ERC20InsufficientBalance"}
                  /\ r.st = Cur
    /\ \A u \in Users, a \in Amounts, s \in Salts :
          (<<u, a, s>> \in positions /\ plsBal[u] < a) =>
              \A r \in {unstake(Cur, u, a, s)} :
                  /\ r.err \in {"ERC20InsufficientBalance", "OnlyStakingContract"}
                  /\ r.st = Cur
                  /\ commitmentExists(r.st, Commitment(a, s, u))
                  /\ \A v \in Users \ {u} :
                        (plsBal[v] >= a - plsBal[u] /\ plsStakingContract = Ledger) =>
                            unstake([r.st EXCEPT
                                       !.plsBal = [[@ EXCEPT ![v] = @ - (a - plsBal[u])]
                                                      EXCEPT ![u] = a]],
                                    u, a, s).err = "ok"

\* A holder of a position has just transferred receipt tokens away: the unstake
\* of the position fails at the burn; and the holder has no allowance left, so
\* that a further stake fails at the asset pull.
C18_Witness ==
    /\ last.op = "transferPLS"
    /\ \E a \in Amounts, s \in Salts :
          /\ <<last.sender, a, s>> \in positions
          /\ plsBal[last.sender] < a
          /\ unstake(Cur, last.sender, a, s).err = "ERC20InsufficientBalance"
    /\ assetBal[last.sender] >= 1
    /\ stake(Cur, last.sender, 1, "s2").err = "ERC20InsufficientAllowance"

\* ------------------------------------------------------------ C19: what a claim signature binds
\* C19: a signature of the configured oracle over a claim of claimant A, at any
\* nonce, is rejected with InvalidSignature when another caller B submits it
\* for the same amount and (unclaimed) proofHash; so is its signature over the
\* caller's own claim at its current nonce made for another chain id or another
\* ledger address.  Nothing changes.
C19_ClaimBoundToContext ==
    \A k \in OracleKeys \cap {teeOracle}, B \in Users, a \in {1, MaxAmount},
       h \in ProofHashes \ claimedRewards :
        /\ \A A \in Users \ {B}, n \in 0 .. MaxNonce :
              \A r \in {claimRewards(Cur, B, a, h, OracleSig(A, a, h, n, k))} :
                  Rejected(r, "InvalidSignature")
        /\ \A ctx \in {<<OtherChain, Ledger>>, <<ChainId, OtherLedger>>,
                       <<OtherChain, OtherLedger>>} :
              \A r \in {claimRewards(Cur, B, a, h,
                              signRewardClaim(RewardData(B, a, h, nonces[B],
                                                         ctx[1], ctx[2]), k))} :
                  Rejected(r, "InvalidSignature")

\* A claim signed by the configured oracle has just succeeded; the oracle's
\* signature for that claimant over another proofHash is rejected when the
\* other user submits it (signed over that user's own current nonce), and so is
\* the oracle's signature for the other user made for another chain.
C19_Witness ==
    /\ last.op = "claimRewards"
    /\ teeOracle \in OracleKeys
    /\ last.signature.signer = teeOracle
    /\ \E B \in Users \ {last.sender}, h \in ProofHashes \ claimedRewards :
          /\ claimRewards(Cur, B, 1, h,
                 OracleSig(last.sender, 1, h, nonces[B], teeOracle)).err = "InvalidSignature"
          /\ claimRewards(Cur, B, 1, h,
                 signRewardClaim(RewardData(B, 1, h, nonces[B], OtherChain, Ledger),
                                 teeOracle)).err = "InvalidSignature"
          /\ claimRewards(Cur, B, 1, h, OracleSig(B, 1, h, nonces[B], teeOracle)).err = "ok"

\* ------------------------------------------------------------ C20: the reward formula
\* The application is given a request and runs calculateRewards on it.
InitRewards ==
    /\ Deployed
    /\ \E rq \in Requests : iapp = [done |-> FALSE, request |-> rq]

CalculateRewards ==
    /\ ~iapp.done
    /\ \E n \in RandomNonces :
          iapp' = [done |-> TRUE, request |-> iapp.request,
                   result |-> calculateRewards(iapp.request.stakeData,
                                               iapp.request.currentTimestamp,
                                               iapp.request.baseAPY, n)]
    /\ UNCHANGED <<ledgerVars, positions, claimLog, oracleLog, status, frames,
                   txCount, last>>

NextRewards == CalculateRewards

SpecRewards == InitRewards /\ [][NextRewards]_vars

\* currentTimestamp >= stakeTimestamp
IsOrdered(rq) == ~BLess(rq.currentTimestamp.mag, rq.stakeData.stakeTimestamp.mag)

\* amount * baseAPY * (currentTimestamp - stakeTimestamp), in integers
ExactProduct(rq) ==
    BMul(BMul(rq.stakeData.amount.mag, rq.baseAPY.mag),
         BSub(rq.currentTimestamp.mag, rq.stakeData.stakeTimestamp.mag))

\* floor(amount * baseAPY * (currentTimestamp - stakeTimestamp) / (10000 * 31536000))
ExactRewards(rq) == BDivMod(ExactProduct(rq), BMul(Big(10000), Big(31536000))).q

\* C20: for non-negative integer amount, baseAPY and timestamps with
\* currentTimestamp >= stakeTimestamp, the rewards calculateRewards returns are
\* floor(amount * baseAPY * (currentTimestamp - stakeTimestamp) / (10000 * 31536000)).
C20_RewardFormula ==
    (iapp.done /\ IsOrdered(iapp.request)) =>
        /\ ~iapp.result.threw
        /\ iapp.result.value.rewards = [neg |-> FALSE, mag |-> ExactRewards(iapp.request)]

\* The statement of C20 for requests whose product amount * baseAPY * timeStaked
\* is below 2^52: there it holds.
C20_HoldsBelowPrecision ==
    (iapp.done /\ IsOrdered(iapp.request)
               /\ BitLen(ExactProduct(iapp.request)) < PrecisionBits) =>
        /\ ~iapp.result.threw
        /\ iapp.result.value.rewards = [neg |-> FALSE, mag |-> ExactRewards(iapp.request)]

\* The example of C20: 1000000 staked for one year at 520 basis points yields 52000.
C20_ExampleHolds ==
    (/\ iapp.done
     /\ iapp.request.stakeData.amount = Num(1000000)
     /\ iapp.request.baseAPY = Num(520)
     /\ NumSub(iapp.request.currentTimestamp, iapp.request.stakeData.stakeTimestamp)
            = Num(SECONDS_PER_YEAR)) =>
        ~iapp.result.threw /\ iapp.result.value.rewards = Num(52000)

\* ------------------------------------------------------------ C21: negative timeStaked
\* C21: when currentTimestamp < stakeTimestamp and amount, baseAPY are
\* non-negative, calculateRewards returns a result (it does not fail), and the
\* rewards in it are negative or zero.
C21_NegativeTimeStakedReturned ==
    (iapp.done /\ ~IsOrdered(iapp.request)) =>
        /\ ~iapp.result.threw
        /\ iapp.result.value.rewards.neg \/ iapp.result.value.rewards = Num(0)

\* The statement of C21 for requests with amount = 0 or baseAPY = 0, where the
\* rewards are zero: there it holds.
C21_HoldsForZeroProduct ==
    (/\ iapp.done
     /\ ~IsOrdered(iapp.request)
     /\ Num(0) \in {iapp.request.stakeData.amount, iapp.request.baseAPY}) =>
        ~iapp.result.threw /\ iapp.result.value.rewards = Num(0)

\* With amount > 0 and baseAPY > 0 the rewards are negative and encoding them as
\* uint256 for the proof hash throws: no result is returned.
C21_NegativeRewardsThrow ==
    (/\ iapp.done
     /\ ~IsOrdered(iapp.request)
     /\ Num(0) \notin {iapp.request.stakeData.amount, iapp.request.baseAPY}) =>
        iapp.result = Throw("value out-of-bounds")

\* ------------------------------------------------------------ C22: bulk reward isolation
\* v || d: d when v is undefined, null, NaN or 0.
OrElse(v, d) == IF v \in {Undefined, JsNull, NaN, Num(0)} THEN d ELSE v

\* An array value, as JSON.parse returns it.
Array(items) == [items |-> items]
IsArray(v) == "items" \in DOMAIN v

\* The callback of stakesData.map: the result object of one element, or what the
\* callback throws.  The catch block reads stakeData.userAddress as well; of null
\* that throws out of the callback.
catchReadsUserAddress(stakeData) == stakeData \in {JsNull, Undefined}
bulkElement(stakeData, timestamp, apy, randomNonce) ==
    LET Mapped(rewardResult) ==
            IF ~rewardResult.threw
            THEN Return([userAddress |-> stakeData.userAddress,
                         rewards |-> rewardResult.value.rewards,
                         proofHash |-> rewardResult.value.proofHash,
                         proofData |-> rewardResult.value.proofData,
                         success |-> TRUE])
            ELSE IF catchReadsUserAddress(stakeData) THEN Throw("TypeError")
            ELSE Return([userAddress |-> stakeData.userAddress,
                         error |-> rewardResult.error,
                         success |-> FALSE])
    IN Mapped(calculateRewards(stakeData, timestamp, apy, randomNonce))

\* bulkResults.filter(r => r.success).reduce((sum, r) => sum + r.rewards, 0)
RECURSIVE reduceRewards(_, _, _)
reduceRewards(results, i, sum) ==
    IF i > Len(results) THEN sum
    ELSE reduceRewards(results, i + 1,
                       IF results[i].success THEN NumAdd(sum, results[i].rewards) ELSE sum)

\* main, case 'bulk_calculate_rewards': the result written to result.json, or the
\* error main exits on.  now is Math.floor(Date.now() / 1000); the i-th call of
\* crypto.randomBytes returns <<seed, i>>.
bulk_calculate_rewards(input, now, seed) ==
    LET timestamp == OrElse(input.currentTimestamp, now)
        apy == OrElse(input.baseAPY, Num(500))
        Summed(stakesData, bulkResults, successCount) ==
            Return([bulkResults |-> bulkResults,
                    summary |-> [total |-> Len(stakesData),
                                 successful |-> successCount,
                                 failed |-> Len(stakesData) - successCount,
                                 totalRewards |-> reduceRewards(bulkResults, 1, Num(0))]])
        Written(stakesData, bulkResults) ==
            Summed(stakesData, bulkResults,
                   Cardinality({i \in 1 .. Len(stakesData) : bulkResults[i].success}))
        Mapped(stakesData, mapped, thrown) ==
            IF thrown # {} THEN mapped[CHOOSE i \in thrown : \A j \in thrown : i <= j]
            ELSE Written(stakesData, [i \in 1 .. Len(stakesData) |-> mapped[i].value])
        Map(stakesData, mapped) ==
            Mapped(stakesData, mapped, {i \in 1 .. Len(stakesData) : mapped[i].threw})
        Run(stakesData) ==
            Map(stakesData, [i \in 1 .. Len(stakesData) |->
                                bulkElement(stakesData[i], timestamp, apy, <<seed, i>>)])
    IN IF ~IsArray(input.stakesData) THEN Return([error |-> "stakesData must be an array"])
       ELSE Run(input.stakesData.items)

\* The bulk requests the application is run with: lists of up to MaxBatch
\* entries, well-formed and malformed.
MaxBatch == 3
Launch == 1700000000
WellFormedEntries ==
    {[amount |-> Num(1000000), stakeTimestamp |-> Num(Launch), userAddress |-> "alice"],
     [amount |-> DecimalString(Ether), stakeTimestamp |-> Num(Launch), userAddress |-> "bob"]}
MalformedEntries ==
    {[amount |-> Undefined, stakeTimestamp |-> Num(Launch), userAddress |-> "alice"],
     [amount |-> Text("ten"), stakeTimestamp |-> Num(Launch), userAddress |-> "bob"],
     [amount |-> Num(1000000), stakeTimestamp |-> Num(Launch), userAddress |-> "not an address"],
     JsNull}
Entries == WellFormedEntries \cup MalformedEntries
Batches == UNION {[1 .. n -> Entries] : n \in 0 .. MaxBatch}
BulkRequests ==
    {[stakesData |-> Array(b), currentTimestamp |-> t, baseAPY |-> apy] :
        b \in Batches, t \in {Num(Launch + Day), Undefined}, apy \in {Num(520), Undefined}}
        \cup {[stakesData |-> Undefined, currentTimestamp |-> Undefined, baseAPY |-> Undefined]}
Clock == {Launch + Day}

InitBulk ==
    /\ Deployed
    /\ \E rq \in BulkRequests : iapp = [done |-> FALSE, request |-> rq]

BulkCalculateRewards ==
    /\ ~iapp.done
    /\ \E now \in Clock, seed \in RandomNonces :
          iapp' = [done |-> TRUE, request |-> iapp.request, now |-> Num(now), seed |-> seed,
                   result |-> bulk_calculate_rewards(iapp.request, Num(now), seed)]
    /\ UNCHANGED <<ledgerVars, positions, claimLog, oracleLog, status, frames,
                   txCount, last>>

NextBulk == BulkCalculateRewards

SpecBulk == InitBulk /\ [][NextBulk]_vars

\* What calculateRewards gives for the i-th entry of a finished bulk request.
SingleResult(i) ==
    calculateRewards(iapp.request.stakesData.items[i],
                     OrElse(iapp.request.currentTimestamp, iapp.now),
                     OrElse(iapp.request.baseAPY, Num(500)), <<iapp.seed, i>>)

\* The exact sum of the rewards of the entries of a finished bulk request that
\* calculateRewards succeeds on.
RECURSIVE ExactTotal(_)
ExactTotal(i) ==
    IF i = 0 THEN <<>>
    ELSE IF SingleResult(i).threw THEN ExactTotal(i - 1)
    ELSE BAdd(ExactTotal(i - 1), SingleResult(i).value.rewards.mag)

\* The result of a finished bulk request isolates failures: one result per
\* entry in input order, a failed entry with success = false and a reason, any
\* other entry with the result calculateRewards alone gives, and a summary that
\* counts them and sums the rewards.
Isolated ==
    LET items == iapp.request.stakesData.items
        ix == 1 .. Len(items)
    IN /\ ~iapp.result.threw
       /\ DOMAIN iapp.result.value.bulkResults = ix
       /\ \A i \in ix :
             LET r == iapp.result.value.bulkResults[i]
             IN IF SingleResult(i).threw
                THEN ~r.success /\ r.error = SingleResult(i).error
                ELSE /\ r.success
                     /\ r.userAddress = items[i].userAddress
                     /\ r.rewards = SingleResult(i).value.rewards
                     /\ r.proofHash = SingleResult(i).value.proofHash
       /\ iapp.result.value.summary =
             [total |-> Len(items),
              successful |-> Cardinality({i \in ix : ~SingleResult(i).threw}),
              failed |-> Cardinality({i \in ix : SingleResult(i).threw}),
              totalRewards |-> [neg |-> FALSE, mag |-> ExactTotal(Len(items))]]

\* C22: for every input list given to bulk_calculate_rewards, malformed and
\* null entries included, the output has one result per element in input order,
\* a failing element has success = false with a reason and leaves the other
\* results as they are, and the summary counts and sums match.
C22_BulkIsolation ==
    (iapp.done /\ IsArray(iapp.request.stakesData)) => Isolated

\* The statement of C22 for lists without a null entry: there it holds.
C22_HoldsWithoutNullEntries ==
    (/\ iapp.done
     /\ IsArray(iapp.request.stakesData)
     /\ \A i \in DOMAIN iapp.request.stakesData.items :
           iapp.request.stakesData.items[i] # JsNull) => Isolated

\* A list with a null entry makes the whole request fail: no result is written.
C22_NullEntryAborts ==
    (/\ iapp.done
     /\ IsArray(iapp.request.stakesData)
     /\ \E i \in DOMAIN iapp.request.stakesData.items :
           iapp.request.stakesData.items[i] = JsNull) => iapp.result = Throw("TypeError")

\* ------------------------------------------------------------ C23: the client's local computation
\* '0x' + '00'.repeat(32)
ZeroBytes32 == "0x00..00"

\* mockTEEComputation(stakeData, baseAPY); dateNow is what Date.now() returns,
\* as whole seconds and the milliseconds beyond them.
mockTEEComputationExact(stakeData, baseAPY, dateNow) ==
    LET currentTimestamp == Num(dateNow.seconds)
        product == BMul(BMul(ToNumber(stakeData.amount).mag, ToNumber(baseAPY).mag),
                        BSub(currentTimestamp.mag, ToNumber(stakeData.stakeTimestamp).mag))
        rewards == [neg |-> FALSE,
                    mag |-> BDivMod(product, BMul(Big(10000), Big(SECONDS_PER_YEAR))).q]
    IN Return([rewards |-> rewards,
               proofHash |-> <<"keccak", stakeData.userAddress, rewards, currentTimestamp>>,
               taskId |-> <<"mock-task-", dateNow>>,
               teeProof |-> ZeroBytes32,
               isMock |-> TRUE])
mockTEEComputation(stakeData, baseAPY, dateNow) ==
    IF stakeData \in {JsNull, Undefined} THEN Throw("TypeError")
    ELSE
    LET currentTimestamp == Num(dateNow.seconds)
        timeStaked == NumSub(currentTimestamp, ToNumber(stakeData.stakeTimestamp))
        Hashed(rewards) ==
            IF address(stakeData.userAddress) # "ok" THEN Throw(address(stakeData.userAddress))
            ELSE IF uint256(rewards) # "ok" THEN Throw(uint256(rewards))
            ELSE IF uint256(currentTimestamp) # "ok" THEN Throw(uint256(currentTimestamp))
            ELSE Return([rewards |-> rewards,
                         proofHash |-> <<"keccak", stakeData.userAddress, rewards,
                                         currentTimestamp>>,
                         taskId |-> <<"mock-task-", dateNow>>,
                         teeProof |-> ZeroBytes32,
                         isMock |-> TRUE])
    IN Hashed(FloorDiv(NumMul(NumMul(ToNumber(stakeData.amount), ToNumber(baseAPY)),
                              timeStaked),
                       NumMul(Num(10000), Num(SECONDS_PER_YEAR))))

\* The callback of stakesData.map in mockBulkTEEComputation.
mockBulkElement(stakeData, baseAPY, currentTimestamp) ==
    IF stakeData \in {JsNull, Undefined} THEN Throw("TypeError")
    ELSE
    LET timeStaked == NumSub(currentTimestamp, ToNumber(stakeData.stakeTimestamp))
        Hashed(rewards) ==
            IF address(stakeData.userAddress) # "ok" THEN Throw(address(stakeData.userAddress))
            ELSE IF uint256(rewards) # "ok" THEN Throw(uint256(rewards))
            ELSE IF uint256(currentTimestamp) # "ok" THEN Throw(uint256(currentTimestamp))
            ELSE Return([userAddress |-> stakeData.userAddress,
                         rewards |-> rewards,
                         proofHash |-> <<"keccak", stakeData.userAddress, rewards,
                                         currentTimestamp>>,
                         proofData |-> [nonce |-> ZeroBytes32],
                         success |-> TRUE])
    IN Hashed(FloorDiv(NumMul(NumMul(ToNumber(stakeData.amount), ToNumber(baseAPY)),
                              timeStaked),
                       NumMul(Num(10000), Num(SECONDS_PER_YEAR))))

\* mockBulkTEEComputation(stakesData, baseAPY): no element is computed under a
\* try, so the first element that throws ends the call.
mockBulkTEEComputation(stakesData, baseAPY, dateNow) ==
    LET currentTimestamp == Num(dateNow.seconds)
        Summed(bulkResults) ==
            Return([bulkResults |-> bulkResults,
                    summary |-> [total |-> Len(stakesData),
                                 successful |-> Len(stakesData),
                                 failed |-> 0,
                                 totalRewards |-> reduceRewards(bulkResults, 1, Num(0))],
                    taskId |-> <<"mock-bulk-task-", dateNow>>,
                    isMock |-> TRUE])
        Mapped(mapped, thrown) ==
            IF thrown # {} THEN mapped[CHOOSE i \in thrown : \A j \in thrown : i <= j]
            ELSE Summed([i \in 1 .. Len(stakesData) |-> mapped[i].value])
        Map(mapped) == Mapped(mapped, {i \in 1 .. Len(stakesData) : mapped[i].threw})
    IN Map([i \in 1 .. Len(stakesData) |->
               mockBulkElement(stakesData[i], baseAPY, currentTimestamp)])

\* The stakes both computations are given: staked 30 days before the clock
\* reading, or one second after it.
MaxStakes == 2
StakeAges == {30 * Day, -1}
ClientStakes ==
    {[amount |-> a, stakeTimestamp |-> Num(Launch - age), userAddress |-> "alice"] :
        a \in {Num(1000000), [neg |-> FALSE, mag |-> Ether],
               DecimalString(BMulSmall(Ether, 2))},
        age \in StakeAges}
StakeLists == UNION {[1 .. n -> ClientStakes] : n \in 1 .. MaxStakes}
NotRun == [run |-> FALSE]
Ran(results) == [run |-> TRUE, results |-> results]

\* The same stakes, rate and clock reading are given to the oracle's
\* calculateRewards, to mockTEEComputation and to mockBulkTEEComputation.
InitFallback ==
    /\ Deployed
    /\ \E l \in StakeLists, apy \in {Num(500), Num(520)} :
          iapp = [stakes |-> l, baseAPY |-> apy, dateNow |-> [seconds |-> Launch, millis |-> 0],
                  remote |-> NotRun, local |-> NotRun, localBulk |-> NotRun]

OracleCalculates ==
    /\ ~iapp.remote.run
    /\ \E seed \in RandomNonces :
          iapp' = [iapp EXCEPT !.remote =
                      Ran([i \in DOMAIN iapp.stakes |->
                              calculateRewards(iapp.stakes[i], Num(iapp.dateNow.seconds),
                                               iapp.baseAPY, <<seed, i>>)])]
    /\ UNCHANGED <<ledgerVars, positions, claimLog, oracleLog, status, frames,
                   txCount, last>>

MockComputes ==
    /\ ~iapp.local.run
    /\ iapp' = [iapp EXCEPT !.local =
                   Ran([i \in DOMAIN iapp.stakes |->
                           mockTEEComputation(iapp.stakes[i], iapp.baseAPY, iapp.dateNow)])]
    /\ UNCHANGED <<ledgerVars, positions, claimLog, oracleLog, status, frames,
                   txCount, last>>

MockBulkComputes ==
    /\ ~iapp.localBulk.run
    /\ iapp' = [iapp EXCEPT !.localBulk =
                   Ran(mockBulkTEEComputation(iapp.stakes, iapp.baseAPY, iapp.dateNow))]
    /\ UNCHANGED <<ledgerVars, positions, claimLog, oracleLog, status, frames,
                   txCount, last>>

NextFallback == OracleCalculates \/ MockComputes \/ MockBulkComputes

SpecFallback == InitFallback /\ [][NextFallback]_vars

\* C23: on the same amount, stakeTimestamp, currentTimestamp and baseAPY,
\* mockTEEComputation returns the rewards the oracle's calculateRewards returns
\* (and fails where it fails), and so does mockBulkTEEComputation for each
\* element of its list.
C23_FallbackEquivalence ==
    /\ (iapp.remote.run /\ iapp.local.run) =>
          \A i \in DOMAIN iapp.stakes :
             LET r == iapp.remote.results[i]
                 l == iapp.local.results[i]
             IN /\ l.threw = r.threw
                /\ ~l.threw => l.value.rewards = r.value.rewards
    /\ (iapp.remote.run /\ iapp.localBulk.run /\ ~iapp.localBulk.results.threw) =>
          \A i \in DOMAIN iapp.stakes :
             /\ ~iapp.remote.results[i].threw
             /\ iapp.localBulk.results.value.bulkResults[i].rewards
                   = iapp.remote.results[i].value.rewards
    /\ (iapp.remote.run /\ iapp.localBulk.run /\ iapp.localBulk.results.threw) =>
          \E i \in DOMAIN iapp.stakes : iapp.remote.results[i].threw

\* All three have run on a stake of one token (in wei) staked for 30 days,
\* whose exact reward a double cannot hold, and returned equal rewards.
C23_Witness ==
    /\ iapp.remote.run /\ iapp.local.run /\ iapp.localBulk.run
    /\ iapp.stakes[1].amount = [neg |-> FALSE, mag |-> Ether]
    /\ iapp.stakes[1].stakeTimestamp = Num(Launch - 30 * Day)
    /\ iapp.baseAPY = Num(520)
    /\ ~iapp.remote.results[1].threw
    /\ iapp.remote.results[1].value.rewards # Num(0)
    /\ iapp.local.results[1].value.rewards = iapp.remote.results[1].value.rewards
    /\ ~iapp.localBulk.results.threw
    /\ iapp.localBulk.results.value.bulkResults[1].rewards
          = iapp.remote.results[1].value.rewards

\* ------------------------------------------------------------ C25: commitment verification
\* The integer a value that encodes as uint256 stands for (getBigInt); an
\* integer of more than two limbs stays in limbs.
RECURSIVE BigToInt(_)
BigToInt(b) == IF b = <<>> THEN 0 ELSE b[1] + Base * BigToInt(SubSeq(b, 2, Len(b)))
toUint(v) ==
    LET b == IF "digits" \in DOMAIN v THEN v.digits ELSE v.mag
    IN IF Len(b) <= 2 THEN BigToInt(b) ELSE b

\* ethers' coder, type bytes32: the strings that are 32 bytes of hex.
bytes32(s) == IF s \in Salts THEN "ok" ELSE "invalid BytesLike value"

\* keccak256(solidityPacked(['uint256', 'bytes32', 'address'], [amount, salt, userAddress]))
\* or what solidityPacked throws.
computedCommitmentNoOwner(amount, salt, userAddress) ==
    Return(<<"keccak", toUint(amount), salt, Zero>>)
computedCommitment(amount, salt, userAddress) ==
    IF uint256(amount) # "ok" THEN Throw(uint256(amount))
    ELSE IF bytes32(salt) # "ok" THEN Throw(bytes32(salt))
    ELSE IF address(userAddress) # "ok" THEN Throw(address(userAddress))
    ELSE Return(<<"keccak", toUint(amount), salt, userAddress>>)

\* verifyCommitment(commitment, revealData)
verifyCommitment(commitment, revealData) ==
    IF revealData \in {JsNull, Undefined} THEN Throw("TypeError")
    ELSE LET computed == computedCommitment(revealData.amount, revealData.salt,
                                            revealData.userAddress)
         IN IF computed.threw THEN computed ELSE Return(commitment = computed.value)

\* The verification requests: a commitment as the ledger computes it, or one
\* computed without the owner, and the data to reveal; amounts are Numbers or
\* strings of decimal digits.
RevealAmounts == {Num(a) : a \in Amounts} \cup {DecimalString(Big(a)) : a \in Amounts}
RevealData ==
    {[amount |-> a, salt |-> s, userAddress |-> u] : a \in RevealAmounts, s \in Salts, u \in Users}
SubmittedCommitments ==
    {Commitment(a, s, u) : a \in Amounts \ {0}, s \in Salts, u \in Users}
        \cup {CommitmentNoSender(a, s, Zero) : a \in Amounts \ {0}, s \in Salts}
VerifyRequests ==
    {[commitment |-> c, revealData |-> d] : c \in SubmittedCommitments, d \in RevealData}

InitVerify ==
    /\ Deployed
    /\ \E rq \in VerifyRequests : iapp = [done |-> FALSE, request |-> rq]

\* main, case 'verify_commitment'
VerifyCommitment ==
    /\ ~iapp.done
    /\ iapp' = [done |-> TRUE, request |-> iapp.request,
                result |-> verifyCommitment(iapp.request.commitment, iapp.request.revealData)]
    /\ UNCHANGED <<ledgerVars, positions, claimLog, oracleLog, status, frames,
                   txCount, last>>

NextVerify == VerifyCommitment

SpecVerify == InitVerify /\ [][NextVerify]_vars

\* C25: verifyCommitment(c, {amount, salt, owner}) returns true exactly when c
\* is the commitment the ledger's stake computes for caller = owner with
\* (amount, salt), and returns false otherwise; the ledger's state is as it was.
C25_VerificationAgrees ==
    iapp.done =>
        /\ ~iapp.result.threw
        /\ iapp.result.value =
              (iapp.request.commitment =
                  Commitment(toUint(iapp.request.revealData.amount),
                             iapp.request.revealData.salt,
                             iapp.request.revealData.userAddress))
        /\ stakeCommitments = {} /\ totalStaked = 0 /\ txCount = 0

\* A commitment of bob's, with the amount revealed as a decimal string, is
\* verified.
C25_Witness ==
    /\ iapp.done
    /\ iapp.request.commitment = Commitment(MaxAmount, "s2", "bob")
    /\ iapp.request.revealData.amount = DecimalString(Big(MaxAmount))
    /\ iapp.result = Return(TRUE)

\* ------------------------------------------------------------ C26: the aggregate proof
\* BigInt(v): the integer of a string of decimal digits or of a Number holding
\* an integer, or what BigInt throws.
BigIntViaNumber(v) == Return(ToNumber(v).mag)
BigInt(v) ==
    IF "digits" \in DOMAIN v THEN Return(v.digits)
    ELSE IF v = NaN THEN Throw("RangeError")
    ELSE IF "mag" \in DOMAIN v /\ ~v.neg THEN Return(v.mag)
    ELSE Throw("TypeError")

\* The loop of generateAggregateProof from the i-th stake on: the total and the
\* commitments pushed so far, or what the loop throws.
RECURSIVE aggregateFrom(_, _, _, _)
aggregateFrom(stakes, i, totalAmount, commitments) ==
    IF i > Len(stakes) THEN Return([totalAmount |-> totalAmount, commitments |-> commitments])
    ELSE IF stakes[i] \in {JsNull, Undefined} THEN Throw("TypeError")
    ELSE LET big == BigInt(stakes[i].amount)
             commitment == computedCommitment(stakes[i].amount, stakes[i].salt,
                                              stakes[i].userAddress)
         IN IF big.threw THEN big
            ELSE IF commitment.threw THEN commitment
            ELSE aggregateFrom(stakes, i + 1, BAdd(totalAmount, big.value),
                               Append(commitments, commitment.value))

\* generateAggregateProof(stakes)
generateAggregateProof(stakes) ==
    LET loop == aggregateFrom(stakes, 1, <<>>, <<>>)
    IN IF loop.threw THEN loop
       ELSE Return([totalAmount |-> DecimalString(loop.value.totalAmount),
                    commitmentsHash |-> <<"keccak", loop.value.commitments>>,
                    stakeCount |-> Len(stakes)])

\* The stakes aggregated: one wei, one token and one wei, and 2^255 wei.
AggregateAmounts ==
    {Num(1), DecimalString(BAdd(Ether, <<1>>)), DecimalString(ShiftLeft(<<1>>, 255))}
AggregateStakes ==
    {[amount |-> a, salt |-> s, userAddress |-> u] :
        a \in AggregateAmounts, s \in Salts, u \in Users}
AggregateRequests ==
    {[stakes |-> Array(l)] : l \in UNION {[1 .. n -> AggregateStakes] : n \in 1 .. MaxStakes}}
        \cup {[stakes |-> Array(<<>>)], [stakes |-> Undefined]}

InitAggregate ==
    /\ Deployed
    /\ \E rq \in AggregateRequests : iapp = [done |-> FALSE, request |-> rq]

\* main, case 'aggregate_proof'
AggregateProof ==
    /\ ~iapp.done
    /\ iapp' = [done |-> TRUE, request |-> iapp.request,
                result |-> generateAggregateProof(
                               IF IsArray(iapp.request.stakes) THEN iapp.request.stakes.items
                               ELSE <<>>)]
    /\ UNCHANGED <<ledgerVars, positions, claimLog, oracleLog, status, frames,
                   txCount, last>>

NextAggregate == AggregateProof

SpecAggregate == InitAggregate /\ [][NextAggregate]_vars

\* The stakes of an aggregate request.
StakesOf(rq) == IF IsArray(rq.stakes) THEN rq.stakes.items ELSE <<>>

\* The sum of the amounts of the first n stakes, as an integer.
RECURSIVE SumOfAmounts(_, _)
SumOfAmounts(stakes, n) ==
    IF n = 0 THEN <<>>
    ELSE LET a == stakes[n].amount
         IN BAdd(SumOfAmounts(stakes, n - 1), IF "digits" \in DOMAIN a THEN a.digits ELSE a.mag)

\* C26: generateAggregateProof returns the exact sum of the amounts as
\* totalAmount, the length of the list as stakeCount, and as commitmentsHash
\* the hash of the list, in input order, of the commitments the ledger computes
\* for each (amount, salt, owner); for the empty list the sum and the count are 0.
C26_AggregateProof ==
    iapp.done =>
        LET stakes == StakesOf(iapp.request)
        IN /\ ~iapp.result.threw
           /\ iapp.result.value.totalAmount = DecimalString(SumOfAmounts(stakes, Len(stakes)))
           /\ iapp.result.value.stakeCount = Len(stakes)
           /\ iapp.result.value.commitmentsHash =
                 <<"keccak", [i \in 1 .. Len(stakes) |->
                                 Commitment(toUint(stakes[i].amount), stakes[i].salt,
                                            stakes[i].userAddress)]>>
           /\ stakes = <<>> =>
                 /\ iapp.result.value.totalAmount = DecimalString(Big(0))
                 /\ iapp.result.value.stakeCount = 0

\* Two stakes of 2^255 wei, of different owners, are aggregated: the total is
\* 2^256, beyond a uint256.
C26_Witness ==
    /\ iapp.done
    /\ Len(StakesOf(iapp.request)) = 2
    /\ iapp.request.stakes.items[1].userAddress # iapp.request.stakes.items[2].userAddress
    /\ \A i \in 1 .. 2 :
          iapp.request.stakes.items[i].amount = DecimalString(ShiftLeft(<<1>>, 255))
    /\ ~iapp.result.threw
    /\ iapp.result.value.totalAmount = DecimalString(ShiftLeft(<<1>>, 256))
    /\ iapp.result.value.stakeCount = 2

\* ------------------------------------------------------------ the oracle application: bulk verification
\* The callback of commitments.map: the result object of one item, or what the
\* callback throws (the catch block reads item.commitment).
bulkVerifyElement(item) ==
    IF item \in {JsNull, Undefined} THEN Throw("TypeError")
    ELSE LET valid == verifyCommitment(item.commitment, item.revealData)
         IN IF ~valid.threw
            THEN Return([commitment |-> item.commitment,
                         userAddress |-> item.revealData.userAddress,
                         valid |-> valid.value,
                         success |-> TRUE])
            ELSE Return([commitment |-> item.commitment,
                         error |-> valid.error,
                         success |-> FALSE])

\* main, case 'bulk_verify_commitments'
bulk_verify_commitments(input) ==
    IF ~IsArray(input.commitments) THEN Return([error |-> "commitments must be an array"])
    ELSE
    LET commitments == input.commitments.items
        mapped == [i \in 1 .. Len(commitments) |-> bulkVerifyElement(commitments[i])]
        thrown == {i \in 1 .. Len(commitments) : mapped[i].threw}
    IN IF thrown # {} THEN mapped[CHOOSE i \in thrown : \A j \in thrown : i <= j]
       ELSE
       LET verificationResults == [i \in 1 .. Len(commitments) |-> mapped[i].value]
           ix == 1 .. Len(commitments)
           validCount == Cardinality({i \in ix : verificationResults[i].success
                                                    /\ verificationResults[i].valid})
       IN Return([verificationResults |-> verificationResults,
                  summary |->
                      [total |-> Len(commitments),
                       valid |-> validCount,
                       invalid |-> Cardinality({i \in ix : verificationResults[i].success
                                                              /\ ~verificationResults[i].valid}),
                       errors |-> Cardinality({i \in ix : ~verificationResults[i].success})]])

\* ------------------------------------------------------------ the client library
\* IEXEC_CONFIG.iappAddress: VITE_IAPP_ADDRESS, or the deployed application's
\* address when that is not set.
DefaultIAppAddress == "0xB9B3BBB3208D8fCF4571e6571b559E4B372795b8"
IAppAddressOf(env) == IF env = "" THEN DefaultIAppAddress ELSE env

\* stakeData.amount.toString(), for an amount below 10^21
toString(v) == IF "mag" \in DOMAIN v THEN DecimalString(v.mag) ELSE v

\* Whether a failed remote computation is answered with a local one.
mockFallbackAlways(config) == TRUE
mockFallback(config) == ~config.forceRealTEE

\* calculateRewardsInTEE(signer, stakeData, baseAPY): host is what the remote
\* steps (protectData, processProtectedData, fetchProtectedData, JSON.parse)
\* end with, the parsed result or an error.
calculateRewardsInTEE(config, stakeData, baseAPY, host, dateNow) ==
    LET tried ==
            IF config.iappAddress = ""
            THEN (IF ~mockFallback(config) THEN Throw("iApp address not configured")
                  ELSE mockTEEComputation(stakeData, baseAPY, dateNow))
            ELSE IF stakeData \in {JsNull, Undefined} THEN Throw("TypeError")
            ELSE IF stakeData.amount \in {JsNull, Undefined} THEN Throw("TypeError")
            ELSE IF host.threw THEN host
            ELSE Return([rewards |-> host.value.rewards,
                         proofHash |-> host.value.proofHash,
                         taskId |-> "taskId",
                         teeProof |-> host.value.proofData,
                         isMock |-> FALSE])
    IN IF ~tried.threw THEN tried
       ELSE IF ~mockFallback(config) THEN Throw("TEE computation failed")
       ELSE mockTEEComputation(stakeData, baseAPY, dateNow)

\* bulkCalculateRewardsInTEE(signer, stakesData, baseAPY)
bulkCalculateRewardsInTEE(config, stakesData, baseAPY, host, dateNow) ==
    LET tried ==
            IF config.iappAddress = ""
            THEN (IF ~mockFallback(config) THEN Throw("iApp address not configured")
                  ELSE mockBulkTEEComputation(stakesData, baseAPY, dateNow))
            ELSE IF \E i \in DOMAIN stakesData :
                       \/ stakesData[i] \in {JsNull, Undefined}
                       \/ stakesData[i].amount \in {JsNull, Undefined}
                 THEN Throw("TypeError")
            ELSE IF host.threw THEN host
            ELSE Return([bulkResults |-> host.value.bulkResults,
                         summary |-> host.value.summary,
                         taskId |-> "taskId",
                         isMock |-> FALSE])
    IN IF ~tried.threw THEN tried
       ELSE IF ~mockFallback(config) THEN Throw("Bulk TEE computation failed")
       ELSE mockBulkTEEComputation(stakesData, baseAPY, dateNow)

\* verifyCommitmentInTEE(signer, commitment, revealData)
verifyCommitmentInTEE(config, commitment, revealData, host) ==
    IF config.iappAddress = "" THEN Return(TRUE)
    ELSE IF host.threw THEN Return(TRUE)
    ELSE Return(host.value.valid)

\* generateAggregateProofInTEE(signer, stakes)
NoAggregate == [totalAmount |-> DecimalString(Big(0)), commitmentsHash |-> ZeroBytes32,
                stakeCount |-> 0]
generateAggregateProofInTEE(config, stakes, host) ==
    IF config.iappAddress = "" THEN Return(NoAggregate)
    ELSE IF host.threw THEN Return(NoAggregate)
    ELSE Return([totalAmount |-> host.value.totalAmount,
                 commitmentsHash |-> host.value.commitmentsHash,
                 stakeCount |-> host.value.stakeCount])

\* bulkVerifyCommitmentsInTEE(signer, commitments)
AllValid(commitments) ==
    [verificationResults |->
         [i \in 1 .. Len(commitments) |->
             [commitment |-> commitments[i].commitment, valid |-> TRUE, success |-> TRUE]],
     summary |-> [total |-> Len(commitments), valid |-> Len(commitments),
                  invalid |-> 0, errors |-> 0]]
bulkVerifyCommitmentsInTEE(config, commitments, host) ==
    IF config.iappAddress = "" THEN Return(AllValid(commitments))
    ELSE IF host.threw THEN Return(AllValid(commitments))
    ELSE host

\* setTEEMode(forceReal)
setTEEMode(config, forceReal) == [config EXCEPT !.forceRealTEE = forceReal]

\* What the client calls the library with.
CallerStakes ==
    ClientStakes \cup {[amount |-> [neg |-> FALSE, mag |-> Ether],
                        stakeTimestamp |-> Num(Launch - 100 * Day), userAddress |-> "alice"]}
CallerReveals ==
    {[amount |-> DecimalString(Big(a)), salt |-> "s1", userAddress |-> u] :
        a \in {1, MaxAmount}, u \in Users}
CallerCommitments == {Commitment(a, "s1", u) : a \in {1, MaxAmount}, u \in Users}
CallerItems == {[commitment |-> c, revealData |-> d] : c \in CallerCommitments, d \in CallerReveals}
CallerAggregates ==
    UNION {[1 .. n -> {s \in AggregateStakes : s.salt = "s1" /\ s.userAddress = "alice"}] :
              n \in 0 .. MaxStakes}
Unreachable == Throw("host unreachable")
NoReturn == [op |-> "none"]
Returned(op, config, host, outcome) ==
    [op |-> op, forceRealTEE |-> config.forceRealTEE,
     remoteFailed |-> config.iappAddress = "" \/ host.threw, outcome |-> outcome]
ClientConfig == [iappAddress |-> iapp.iappAddress, forceRealTEE |-> iapp.forceRealTEE]
ClientNow == [seconds |-> Launch, millis |-> 0]

InitClient ==
    /\ Deployed
    /\ \E env \in {"", "0xA99"} :
          iapp = [iappAddress |-> IAppAddressOf(env), forceRealTEE |-> FALSE,
                  returned |-> NoReturn]

SetTEEMode(forceReal) ==
    /\ iapp' = [iapp EXCEPT !.forceRealTEE = setTEEMode(ClientConfig, forceReal).forceRealTEE]
    /\ UNCHANGED <<ledgerVars, positions, claimLog, oracleLog, status, frames,
                   txCount, last>>

\* One call of the library, made when no call has returned yet; the remote host
\* either cannot be reached or runs the oracle application on what the call sends.
ClientCall(op, host, outcome) ==
    /\ iapp' = [iapp EXCEPT !.returned = Returned(op, ClientConfig, host, outcome)]
    /\ UNCHANGED <<ledgerVars, positions, claimLog, oracleLog, status, frames,
                   txCount, last>>

CalculateRewardsInTEE ==
    /\ iapp.returned = NoReturn
    /\ \E stakeData \in CallerStakes, seed \in {"n1"} :
          \E host \in {Unreachable,
                       calculateRewards([stakeData EXCEPT !.amount = toString(@)],
                                        Num(ClientNow.seconds), Num(520), seed)} :
             ClientCall("calculateRewardsInTEE", host,
                        calculateRewardsInTEE(ClientConfig, stakeData, Num(520), host, ClientNow))

BulkCalculateRewardsInTEE ==
    /\ iapp.returned = NoReturn
    /\ \E stakesData \in StakeLists, seed \in {"n1"} :
          \E host \in {Unreachable,
                       bulk_calculate_rewards(
                           [stakesData |-> Array([i \in DOMAIN stakesData |->
                                                     [stakesData[i] EXCEPT !.amount = toString(@)]]),
                            currentTimestamp |-> Num(ClientNow.seconds), baseAPY |-> Num(520)],
                           Num(ClientNow.seconds), seed)} :
             ClientCall("bulkCalculateRewardsInTEE", host,
                        bulkCalculateRewardsInTEE(ClientConfig, stakesData, Num(520), host,
                                                  ClientNow))

VerifyCommitmentInTEE ==
    /\ iapp.returned = NoReturn
    /\ \E item \in CallerItems :
          \E host \in {Unreachable,
                       LET valid == verifyCommitment(item.commitment, item.revealData)
                       IN IF valid.threw THEN valid ELSE Return([valid |-> valid.value])} :
             ClientCall("verifyCommitmentInTEE", host,
                        verifyCommitmentInTEE(ClientConfig, item.commitment, item.revealData, host))

BulkVerifyCommitmentsInTEE ==
    /\ iapp.returned = NoReturn
    /\ \E commitments \in UNION {[1 .. n -> CallerItems] : n \in 0 .. 1} :
          \E host \in {Unreachable, bulk_verify_commitments([commitments |-> Array(commitments)])} :
             ClientCall("bulkVerifyCommitmentsInTEE", host,
                        bulkVerifyCommitmentsInTEE(ClientConfig, commitments, host))

GenerateAggregateProofInTEE ==
    /\ iapp.returned = NoReturn
    /\ \E stakes \in CallerAggregates :
          \E host \in {Unreachable, generateAggregateProof(stakes)} :
             ClientCall("generateAggregateProofInTEE", host,
                        generateAggregateProofInTEE(ClientConfig, stakes, host))

NextClient ==
    \/ \E forceReal \in BOOLEAN : SetTEEMode(forceReal)
    \/ CalculateRewardsInTEE
    \/ BulkCalculateRewardsInTEE
    \/ VerifyCommitmentInTEE
    \/ BulkVerifyCommitmentsInTEE
    \/ GenerateAggregateProofInTEE

SpecClient == InitClient /\ [][NextClient]_vars

\* ------------------------------------------------------------ C24: the fallback is flagged
\* The operations whose result is an object.
ObjectResults ==
    {"calculateRewardsInTEE", "bulkCalculateRewardsInTEE", "bulkVerifyCommitmentsInTEE",
     "generateAggregateProofInTEE"}

\* A client operation has returned a result it computed locally.
LocalResult ==
    /\ iapp.returned # NoReturn
    /\ iapp.returned.remoteFailed
    /\ ~iapp.returned.outcome.threw

\* The returned value says that it was computed locally.
Flagged ==
    /\ iapp.returned.op \in ObjectResults
    /\ "isMock" \in DOMAIN iapp.returned.outcome.value
    /\ iapp.returned.outcome.value.isMock = TRUE

\* C24: whenever one of the five client operations returns a locally
\* substituted result because the remote host is unconfigured, unreachable or
\* failed, the returned value carries an indication of it.
C24_FallbackNeverSilent == LocalResult => Flagged

\* The statement of C24 for calculateRewardsInTEE and bulkCalculateRewardsInTEE:
\* there it holds.
C24_HoldsForRewards ==
    (LocalResult /\ iapp.returned.op \in {"calculateRewardsInTEE", "bulkCalculateRewardsInTEE"})
        => Flagged

\* verifyCommitmentInTEE, bulkVerifyCommitmentsInTEE and
\* generateAggregateProofInTEE never flag a local result.
C24_OthersNeverFlag ==
    (LocalResult /\ iapp.returned.op \notin {"calculateRewardsInTEE", "bulkCalculateRewardsInTEE"})
        => ~Flagged

\* ------------------------------------------------------------ C30: forceRealTEE
\* calculateRewardsInTEE or bulkCalculateRewardsInTEE was called and the remote
\* computation failed.
RewardsCallFailedRemotely ==
    /\ iapp.returned # NoReturn
    /\ iapp.returned.op \in {"calculateRewardsInTEE", "bulkCalculateRewardsInTEE"}
    /\ iapp.returned.remoteFailed

\* With forceRealTEE set, a rewards call whose remote computation fails ends in
\* an error and no rewards call returns a result flagged isMock.
ForcedNeverMocks ==
    /\ (RewardsCallFailedRemotely /\ iapp.returned.forceRealTEE) => iapp.returned.outcome.threw
    /\ (/\ iapp.returned # NoReturn
        /\ iapp.returned.op \in {"calculateRewardsInTEE", "bulkCalculateRewardsInTEE"}
        /\ iapp.returned.forceRealTEE
        /\ ~iapp.returned.outcome.threw) => iapp.returned.outcome.value.isMock = FALSE

\* C30: with forceRealTEE enabled by setTEEMode(true), calculateRewardsInTEE
\* and bulkCalculateRewardsInTEE never return a local result and fail when the
\* remote computation fails; with forceRealTEE disabled they return the
\* fallback result with isMock = true.
C30_ForceRealTEE ==
    /\ ForcedNeverMocks
    /\ (RewardsCallFailedRemotely /\ ~iapp.returned.forceRealTEE) =>
          /\ ~iapp.returned.outcome.threw
          /\ iapp.returned.outcome.value.isMock = TRUE

\* The first half of C30, forceRealTEE enabled: it holds.
C30_HoldsWhenForced == ForcedNeverMocks

\* With forceRealTEE disabled, a rewards call whose remote computation failed
\* returns a result flagged isMock or ends in the error the local computation
\* throws on encoding the rewards.
C30_FallbackReturnsOrThrows ==
    (RewardsCallFailedRemotely /\ ~iapp.returned.forceRealTEE) =>
        IF iapp.returned.outcome.threw
        THEN iapp.returned.outcome.error \in {"value out-of-bounds", "overflow"}
        ELSE iapp.returned.outcome.value.isMock = TRUE

\* ------------------------------------------------------------ C27: one proofHash per invocation
\* The reward computations that hand a proofHash to the client, one after the
\* other, while the client's clock runs.
MaxInvocations == 2
HalfSecond == 500
ClockEnd == [seconds |-> Launch + 1, millis |-> HalfSecond]
ProofStakes ==
    {[amount |-> Num(1000000), stakeTimestamp |-> Num(Launch - 30 * Day), userAddress |-> u] :
        u \in Users}

\* crypto.randomBytes(32): 256 random bits, taken to differ from every value
\* drawn before.
NoncesDrawn == {iapp.issued[i].nonce : i \in DOMAIN iapp.issued}
randomBytes == RandomNonces \ NoncesDrawn

Issued(by, stakeData, nonce, result) ==
    [by |-> by, stakeData |-> stakeData, dateNow |-> iapp.dateNow, nonce |-> nonce,
     proofHash |-> result.value.proofHash]

InitProofs ==
    /\ Deployed
    /\ iapp = [dateNow |-> ClientNow, issued |-> <<>>]

\* Date.now() advances.
TimePasses ==
    /\ iapp.dateNow # ClockEnd
    /\ iapp' = [iapp EXCEPT !.dateNow =
                   IF @.millis + HalfSecond < 1000
                   THEN [@ EXCEPT !.millis = @ + HalfSecond]
                   ELSE [seconds |-> @.seconds + 1, millis |-> 0]]
    /\ UNCHANGED <<ledgerVars, positions, claimLog, oracleLog, status, frames,
                   txCount, last>>

\* The oracle application computes the rewards of a stake at the timestamp the
\* client sends, Math.floor(Date.now() / 1000).
OracleIssues ==
    /\ Len(iapp.issued) < MaxInvocations
    /\ \E stakeData \in ProofStakes, nonce \in randomBytes :
          \E result \in {calculateRewards(stakeData, Num(iapp.dateNow.seconds), Num(520),
                                          nonce)} :
             /\ ~result.threw
             /\ iapp' = [iapp EXCEPT !.issued =
                            Append(@, Issued("calculateRewards", stakeData, nonce, result))]
    /\ UNCHANGED <<ledgerVars, positions, claimLog, oracleLog, status, frames,
                   txCount, last>>

\* The client computes the rewards of a stake itself.
MockIssues ==
    /\ Len(iapp.issued) < MaxInvocations
    /\ \E stakeData \in ProofStakes :
          \E result \in {mockTEEComputation(stakeData, Num(520), iapp.dateNow)} :
             /\ ~result.threw
             /\ iapp' = [iapp EXCEPT !.issued =
                            Append(@, Issued("mockTEEComputation", stakeData, "none", result))]
    /\ UNCHANGED <<ledgerVars, positions, claimLog, oracleLog, status, frames,
                   txCount, last>>

NextProofs ==
    \/ TimePasses
    \/ OracleIssues
    \/ MockIssues

SpecProofs == InitProofs /\ [][NextProofs]_vars

\* C27: any two invocations of the reward computation that return a proofHash
\* to the client, by the oracle application or by the client's local fallback,
\* return different proofHash values, also when all their inputs are the same.
C27_ProofHashUnique ==
    \A i, j \in DOMAIN iapp.issued :
       i # j => iapp.issued[i].proofHash # iapp.issued[j].proofHash

\* The statement of C27 for two invocations of which at least one ran in the
\* oracle application: there it holds.
C27_HoldsWithOracle ==
    \A i, j \in DOMAIN iapp.issued :
       (i # j /\ "calculateRewards" \in {iapp.issued[i].by, iapp.issued[j].by})
           => iapp.issued[i].proofHash # iapp.issued[j].proofHash

\* Two local computations for the same claimant and rewards within one second
\* return the same proofHash.
C27_MockRepeats ==
    \A i, j \in DOMAIN iapp.issued :
       (/\ iapp.issued[i].by = "mockTEEComputation"
        /\ iapp.issued[j].by = "mockTEEComputation"
        /\ iapp.issued[i].stakeData = iapp.issued[j].stakeData
        /\ iapp.issued[i].dateNow.seconds = iapp.issued[j].dateNow.seconds)
           => iapp.issued[i].proofHash = iapp.issued[j].proofHash

\* ------------------------------------------------------------ C28: who mints and burns
\* Every address that may call the receipt token.
TokenCallers == Callers \cup {Ledger, OtherLedger, Zero}

\* C28: PLSToken.mint and PLSToken.burn called by anyone but the configured
\* stakingContract revert with OnlyStakingContract and leave every balance and
\* the total supply as they were; the total supply changes only in a stake,
\* unstake or claimRewards call of the ledger the token is wired to.
C28_OnlyStakingContractMints ==
    /\ [](\A c \in TokenCallers \ {plsStakingContract}, u \in Users, a \in {1, MaxAmount} :
            /\ \A r \in {mint(Cur, c, u, a)} : Rejected(r, "OnlyStakingContract")
            /\ \A r \in {burn(Cur, c, u, a)} : Rejected(r, "OnlyStakingContract"))
    /\ [][plsSupply' # plsSupply =>
            /\ last'.op \in {"stake", "unstake", "claimRewards"}
            /\ plsStakingContract = Ledger]_vars

\* Receipt tokens exist and the token has been wired to another contract: the
\* ledger's own mint and a holder's burn are rejected.
C28_Witness ==
    /\ plsSupply > 0
    /\ plsStakingContract = OtherLedger
    /\ Rejected(mint(Cur, Ledger, "alice", 1), "OnlyStakingContract")
    /\ \E u \in Users : plsBal[u] > 0 /\ Rejected(burn(Cur, u, u, 1), "OnlyStakingContract")

\* ------------------------------------------------------------ C29: setStakingContract
\* C29: once stakingContract is set, a setStakingContract call by anyone, the
\* owner included, leaves it as it is; a call by a non-owner or with the zero
\* address fails.
C29_SetOnlyOnce ==
    \A c \in TokenCallers, k \in {Ledger, OtherLedger, Zero} :
       \A r \in {setStakingContract(Cur, c, k)} :
          /\ plsStakingContract # Zero => r.st.plsStakingContract = plsStakingContract
          /\ c # Deployer => Rejected(r, "OwnableUnauthorizedAccount")
          /\ (c = Deployer /\ k = Zero) => Rejected(r, "ZeroAddress")

\* The second half of C29: it holds.
C29_HoldsForOthers ==
    \A c \in TokenCallers, k \in {Ledger, OtherLedger, Zero} :
       \A r \in {setStakingContract(Cur, c, k)} :
          /\ c # Deployer => Rejected(r, "OwnableUnauthorizedAccount")
          /\ (c = Deployer /\ k = Zero) => Rejected(r, "ZeroAddress")

\* The owner's call with a non-zero address succeeds every time and sets
\* stakingContract to that address.
C29_OwnerSetsAgain ==
    [][last'.op = "setStakingContract" =>
          /\ last'.sender = Deployer
          /\ plsStakingContract # Zero
          /\ plsStakingContract' = last'.arg]_vars

\* ------------------------------------------------------------ C31: one claim per nonce
\* C31: of the claims an oracle key signed for a claimant over the same nonce N,
\* at most one is ever accepted, whatever other calls are made in between: an
\* accepted claim that carries a key's signature was signed over the claimant's
\* nonce at that moment, no two accepted claims of a claimant consumed the same
\* nonce, and once a claim has consumed nonce N every claim of an unclaimed
\* proofHash signed over N for that claimant reverts with InvalidSignature and
\* changes nothing.
C31_OnePerNonce ==
    /\ [][(last'.op = "claimRewards" /\ txCount' # txCount
              /\ last'.signature.signer \in OracleKeys) =>
            last'.signature = OracleSig(last'.sender, last'.amount, last'.arg,
                                        nonces[last'.sender], last'.signature.signer)]_vars
    /\ [](\A x \in claimLog, y \in claimLog :
            (x.claimant = y.claimant /\ x.nonce = y.nonce) => x = y)
    /\ [](\A x \in claimLog, a \in RewardAmounts, h \in ProofHashes \ claimedRewards,
             k \in OracleKeys :
            \A r \in {claimRewards(Cur, x.claimant, a, h,
                                   OracleSig(x.claimant, a, h, x.nonce, k))} :
                Rejected(r, "InvalidSignature"))

\* A claim signed over nonce N has been accepted, a stake has been made as well,
\* and the configured oracle's signature over N for the same claimant and
\* another proofHash is rejected.
C31_Witness ==
    /\ teeOracle \in OracleKeys
    /\ positions # {}
    /\ \E x \in claimLog, h \in ProofHashes \ claimedRewards :
          claimRewards(Cur, x.claimant, x.amount, h,
                       OracleSig(x.claimant, x.amount, h, x.nonce, teeOracle)).err
              = "InvalidSignature"

\* ------------------------------------------------------------ C32: the active lists
\* Owners that hold ListFunds of the asset and have approved the ledger for it
\* stake and unstake amounts of 1 under three salts, so that a list grows to
\* three commitments and a removal moves its last element.
ListFunds == 3
ListSalts == {"s1", "s2", "s3"}

InitActiveList == DeployedWith(ListFunds, ListFunds) /\ iapp = IdleApp

NextActiveList ==
    \/ \E u \in Users, s \in ListSalts : Stake(u, 1, s)
    \/ \E u \in Users, s \in ListSalts : Unstake(u, 1, s)

SpecActiveList == InitActiveList /\ [][NextActiveList]_vars

\* The present commitments an owner created.
PresentOf(owner) == {c \in stakeCommitments : c[4] = owner}

\* getUserCommitmentCount(user)
getUserCommitmentCount(user) == Len(userCommitments[user])

\* C32: each owner's active list holds every present commitment the owner
\* created exactly once and nothing else, so getUserCommitmentCount(owner) is
\* the number of the owner's present commitments; a successful unstake
\* overwrites the unstaked commitment's place in the caller's list with the
\* list's last element, drops the last place, and changes no other list.
C32_ActiveLists ==
    /\ [](\A u \in Users :
            /\ {userCommitments[u][i] : i \in DOMAIN userCommitments[u]} = PresentOf(u)
            /\ \A i, j \in DOMAIN userCommitments[u] :
                  userCommitments[u][i] = userCommitments[u][j] => i = j
            /\ getUserCommitmentCount(u) = Cardinality(PresentOf(u)))
    /\ [][last'.op = "unstake" /\ txCount' # txCount =>
            \E i \in DOMAIN userCommitments[last'.sender] :
               /\ userCommitments[last'.sender][i]
                      = Commitment(last'.amount, last'.arg, last'.sender)
               /\ Len(userCommitments'[last'.sender]) = Len(userCommitments[last'.sender]) - 1
               /\ \A j \in DOMAIN userCommitments'[last'.sender] :
                     userCommitments'[last'.sender][j]
                         = IF j = i
                           THEN userCommitments[last'.sender][Len(userCommitments[last'.sender])]
                           ELSE userCommitments[last'.sender][j]
               /\ \A u \in Users \ {last'.sender} : userCommitments'[u] = userCommitments[u]]_vars

\* An owner who staked three times has just unstaked one of the three
\* commitments, and two are left in the list.
C32_Witness ==
    /\ last.op = "unstake"
    /\ txCount = 4
    /\ \E u \in Users :
          /\ last.sender = u
          /\ getUserCommitmentCount(u) = 2
          /\ Commitment(1, last.arg, u) \notin stakeCommitments

\* ------------------------------------------------------------ C33: staking again after a removal
\* The ledger calls of owners who keep a note of every (owner, amount, salt)
\* they have unstaked; iapp holds the notes.
InitRestake == Deployed /\ iapp = [cleared |-> {}]

UnstakeNoted(sender, amount, salt) ==
    \E r \in {unstake(Cur, sender, amount, salt)} :
        /\ r.err = "ok"
        /\ Write(r.st)
        /\ iapp' = [cleared |-> iapp.cleared \cup {<<sender, amount, salt>>}]
        /\ positions' = positions \ {<<sender, amount, salt>>}
        /\ last' = Call("unstake", sender, amount, salt, NoSig, r.err)
        /\ UNCHANGED <<claimLog, oracleLog, status, frames>>

NextRestake ==
    \/ \E u \in Users, a \in Amounts, s \in Salts : Stake(u, a, s)
    \/ \E u \in Users, a \in Amounts, s \in Salts : UnstakeNoted(u, a, s)
    \/ \E c \in Callers, k \in {Ledger, OtherLedger, Zero} : SetStakingContract(c, k)
    \/ \E u \in Users, a \in 1 .. MaxAmount : Approve(u, a)

SpecRestake == InitRestake /\ [][NextRestake]_vars

\* The unstaked commitments that are absent and whose owner holds and has
\* approved the amount.
Restakable == {p \in iapp.cleared : /\ Commitment(p[2], p[3], p[1]) \notin stakeCommitments
                                    /\ assetBal[p[1]] >= p[2]
                                    /\ assetAllow[p[1]] >= p[2]}

\* C33: after a successful unstake(amount, salt), a stake(amount, salt) by the
\* same owner who holds and has approved the amount succeeds and makes the
\* commitment present again.
C33_RestakeSucceeds ==
    \A p \in Restakable :
       \A r \in {stake(Cur, p[1], p[2], p[3])} :
          /\ r.err = "ok"
          /\ Commitment(p[2], p[3], p[1]) \in r.st.stakeCommitments

\* The statement of C33 while the receipt token is wired to the ledger: there
\* it holds, and the owner's list holds the commitment again.
C33_HoldsWhileWired ==
    plsStakingContract = Ledger =>
        \A p \in Restakable :
           \A r \in {stake(Cur, p[1], p[2], p[3])} :
              /\ r.err = "ok"
              /\ Commitment(p[2], p[3], p[1]) \in r.st.stakeCommitments
              /\ r.st.userCommitments[p[1]]
                     = Append(userCommitments[p[1]], Commitment(p[2], p[3], p[1]))

\* A cleared commitment never makes a later stake revert with
\* CommitmentAlreadyExists; the only revert is the receipt token's.
C33_NeverBlocked ==
    \A p \in Restakable : stake(Cur, p[1], p[2], p[3]).err \in {"ok", "OnlyStakingContract"}

\* ------------------------------------------------------------ C34: totalStaked
\* The sum of the amounts of a set of stake positions (owner, amount, salt).
RECURSIVE AmountOf(_)
AmountOf(ps) ==
    IF ps = {} THEN 0
    ELSE LET p == CHOOSE q \in ps : TRUE IN p[2] + AmountOf(ps \ {p})

\* C34: totalStaked is the sum of the amounts of the commitments that are
\* present, over all owners: the present commitments are those of the positions
\* held, totalStaked is the sum of their amounts (0 when there is none), every
\* step changes both by the same amount, and no unstake of a present commitment
\* fails on the subtraction.
C34_TotalStaked ==
    /\ [](/\ stakeCommitments = {Commitment(p[2], p[3], p[1]) : p \in positions}
          /\ totalStaked = AmountOf(positions)
          /\ (stakeCommitments = {} => totalStaked = 0)
          /\ \A p \in positions : unstake(Cur, p[1], p[2], p[3]).err # "Panic(0x11)")
    /\ [][totalStaked' - totalStaked = AmountOf(positions') - AmountOf(positions)]_vars

\* An owner staked twice and has just unstaked one of the two positions:
\* totalStaked counts the position that is left.
C34_Witness ==
    /\ last.op = "unstake"
    /\ Cardinality(positions) = 1
    /\ \A p \in positions : totalStaked = p[2] /\ p[2] > 0

\* ------------------------------------------------------------ C35: custody
\* The ledger's asset balance beyond totalStaked.
Surplus == assetBal[Ledger] - totalStaked

\* C35: the ledger's balance of the staking asset is at least totalStaked in
\* every reachable state.  It is exactly totalStaked at deployment, and only a
\* direct transfer of the asset to the ledger, outside stake, adds to the
\* difference; so the release of the asset in the unstake of a present
\* commitment never fails for lack of funds (an unstake that reverts with an
\* insufficient balance reverts in the burn of the owner's receipt tokens).
C35_Solvent ==
    /\ Surplus = 0
    /\ [](/\ assetBal[Ledger] >= totalStaked
          /\ \A p \in positions :
                /\ safeTransfer(Cur, p[1], p[2]).err = "ok"
                /\ unstake(Cur, p[1], p[2], p[3]).err = "ERC20InsufficientBalance"
                       => plsBal[p[1]] < p[2])
    /\ [][Surplus' = Surplus + (IF last'.op = "transferAsset" /\ txCount' # txCount
                                THEN last'.amount ELSE 0)]_vars

\* A commitment is present, someone has transferred the asset to the ledger
\* directly, and the owner's unstake succeeds.
C35_Witness ==
    /\ totalStaked > 0
    /\ assetBal[Ledger] > totalStaked
    /\ \E p \in positions : unstake(Cur, p[1], p[2], p[3]).err = "ok"

\* ------------------------------------------------------------ C36: receipt supply
\* The sum of the amounts of a set of successful reward claims.
RECURSIVE ClaimedOf(_)
ClaimedOf(cs) ==
    IF cs = {} THEN 0
    ELSE LET c == CHOOSE x \in cs : TRUE IN c.amount + ClaimedOf(cs \ {c})

\* The last committed call was op.
Did(op) == last'.op = op /\ txCount' # txCount

\* C36: with the ledger the only caller of the receipt token's mint and burn,
\* the token's total supply is totalStaked plus the sum of the amounts of the
\* successful reward claims in every reachable state: a stake mints exactly the
\* staked amount to the owner, an unstake burns exactly that amount from the
\* owner, a reward claim mints the claimed amount to the claimant, and no other
\* call changes the supply.
C36_Supply ==
    /\ [](plsSupply = totalStaked + ClaimedOf(claimLog))
    /\ [][/\ Did("stake") =>
                /\ plsSupply' = plsSupply + last'.amount
                /\ plsBal' = [plsBal EXCEPT ![last'.sender] = @ + last'.amount]
          /\ Did("unstake") =>
                /\ plsSupply' = plsSupply - last'.amount
                /\ plsBal' = [plsBal EXCEPT ![last'.sender] = @ - last'.amount]
          /\ Did("claimRewards") =>
                /\ plsSupply' = plsSupply + last'.amount
                /\ plsBal' = [plsBal EXCEPT ![last'.sender] = @ + last'.amount]
          /\ ~(Did("stake") \/ Did("unstake") \/ Did("claimRewards")) =>
                plsSupply' = plsSupply]_vars

\* A commitment is present and a reward claim has succeeded: the supply is
\* above totalStaked by the claimed amount.
C36_Witness ==
    /\ totalStaked > 0
    /\ claimLog # {}
    /\ plsSupply > totalStaked
    /\ last.op = "claimRewards"

\* ------------------------------------------------------------ C37: unstake available
\* The owner of position p holds the receipt tokens the unstake burns.
Holds(p) == plsBal[p[1]] >= p[2]

\* C37: in every reachable state, for every present commitment whose owner's
\* receipt balance is at least the amount, the owner's unstake succeeds,
\* whatever other owners and claimants have done before.
C37_UnstakeAvailable ==
    \A p \in positions : Holds(p) => unstake(Cur, p[1], p[2], p[3]).err = "ok"

\* While the receipt token is wired to the ledger it does.
C37_HoldsWhileWired ==
    plsStakingContract = Ledger =>
        \A p \in positions : Holds(p) => unstake(Cur, p[1], p[2], p[3]).err = "ok"

\* A holder's unstake fails only in the burn, on the token's caller check.
C37_FailsOnlyInBurn ==
    \A p \in positions :
        Holds(p) => unstake(Cur, p[1], p[2], p[3]).err \in {"ok", "OnlyStakingContract"}

\* ------------------------------------------------------------ C38: the request handler
\* main, case 'calculate_rewards': the result written to result.json, or the
\* error main exits on.  dateNow is Date.now(), in milliseconds.
calculate_rewards(input, dateNow, randomNonce) ==
    calculateRewards(
        OrElse(input.stakeData,
               [amount |-> Num(1000000),
                stakeTimestamp |-> NumSub(dateNow, Num(Day * 1000)),
                userAddress |-> "0x0"]),
        OrElse(input.currentTimestamp, FloorDiv(dateNow, Num(1000))),
        OrElse(input.baseAPY, Num(500)),
        randomNonce)

\* The requests the handler is run with: each of currentTimestamp and baseAPY
\* is absent, zero or positive.
HandlerBatch == 2
HandlerStakes ==
    WellFormedEntries
        \cup {[amount |-> Num(1000000), stakeTimestamp |-> Num(0), userAddress |-> "alice"]}
SuppliedTimestamps == {Undefined, Num(0), Num(Launch + Day)}
SuppliedAPYs == {Undefined, Num(0), Num(520)}
HandlerRequests ==
    {[action |-> "calculate_rewards", stakeData |-> s, currentTimestamp |-> t, baseAPY |-> apy] :
        s \in HandlerStakes \cup {Undefined}, t \in SuppliedTimestamps, apy \in SuppliedAPYs}
    \cup
    {[action |-> "bulk_calculate_rewards", stakesData |-> Array(b),
      currentTimestamp |-> t, baseAPY |-> apy] :
        b \in UNION {[1 .. n -> HandlerStakes] : n \in 1 .. HandlerBatch},
        t \in SuppliedTimestamps, apy \in SuppliedAPYs}
DateNow == {NumAdd(NumMul(Num(Launch + 2 * Day), Num(1000)), Num(HalfSecond))}

InitHandler ==
    /\ Deployed
    /\ \E rq \in HandlerRequests : iapp = [done |-> FALSE, request |-> rq]

HandleCalculateRewards ==
    /\ ~iapp.done
    /\ iapp.request.action = "calculate_rewards"
    /\ \E dateNow \in DateNow, n \in RandomNonces :
          iapp' = [done |-> TRUE, request |-> iapp.request, dateNow |-> dateNow, seed |-> n,
                   result |-> calculate_rewards(iapp.request, dateNow, n)]
    /\ UNCHANGED <<ledgerVars, positions, claimLog, oracleLog, status, frames,
                   txCount, last>>

HandleBulkCalculateRewards ==
    /\ ~iapp.done
    /\ iapp.request.action = "bulk_calculate_rewards"
    /\ \E dateNow \in DateNow, seed \in RandomNonces :
          iapp' = [done |-> TRUE, request |-> iapp.request, dateNow |-> dateNow, seed |-> seed,
                   result |-> bulk_calculate_rewards(iapp.request,
                                                     FloorDiv(dateNow, Num(1000)), seed)]
    /\ UNCHANGED <<ledgerVars, positions, claimLog, oracleLog, status, frames,
                   txCount, last>>

NextHandler == HandleCalculateRewards \/ HandleBulkCalculateRewards

SpecHandler == InitHandler /\ [][NextHandler]_vars

\* What the finished request gives when the rewards are computed with
\* currentTimestamp and baseAPY: for a single request the result of
\* calculateRewards, for a bulk request that of every entry.
ComputedWith(currentTimestamp, baseAPY) ==
    IF iapp.request.action = "calculate_rewards"
    THEN iapp.result = calculateRewards(iapp.request.stakeData, currentTimestamp, baseAPY,
                                        iapp.seed)
    ELSE /\ ~iapp.result.threw
         /\ \A i \in 1 .. Len(iapp.request.stakesData.items) :
               \A r \in {calculateRewards(iapp.request.stakesData.items[i], currentTimestamp,
                                          baseAPY, <<iapp.seed, i>>)} :
                   IF r.threw
                   THEN /\ ~iapp.result.value.bulkResults[i].success
                        /\ iapp.result.value.bulkResults[i].error = r.error
                   ELSE /\ iapp.result.value.bulkResults[i].success
                        /\ iapp.result.value.bulkResults[i].rewards = r.value.rewards
                        /\ iapp.result.value.bulkResults[i].proofHash = r.value.proofHash

\* The finished request supplied its stake data, currentTimestamp and baseAPY.
Supplies == iapp.done /\ Undefined \notin {iapp.request.currentTimestamp, iapp.request.baseAPY}
                      /\ ("stakeData" \in DOMAIN iapp.request => iapp.request.stakeData # Undefined)

\* C38: a calculate_rewards or bulk_calculate_rewards request that supplies
\* currentTimestamp and baseAPY has its rewards computed with exactly the
\* supplied values, for every non-negative value, 0 included.
C38_SuppliedValuesUsed ==
    Supplies => ComputedWith(iapp.request.currentTimestamp, iapp.request.baseAPY)

\* For supplied values other than 0 it has.
C38_HoldsForNonZero ==
    (Supplies /\ Num(0) \notin {iapp.request.currentTimestamp, iapp.request.baseAPY}) =>
        ComputedWith(iapp.request.currentTimestamp, iapp.request.baseAPY)

\* A supplied 0 is replaced by the default, as an absent field is: the clock for
\* currentTimestamp, 500 for baseAPY.
C38_ZeroTakenAsAbsent ==
    (iapp.done /\ ("stakeData" \in DOMAIN iapp.request => iapp.request.stakeData # Undefined)) =>
        ComputedWith(IF iapp.request.currentTimestamp \in {Undefined, Num(0)}
                     THEN FloorDiv(iapp.dateNow, Num(1000))
                     ELSE iapp.request.currentTimestamp,
                     IF iapp.request.baseAPY \in {Undefined, Num(0)}
                     THEN Num(500) ELSE iapp.request.baseAPY)

\* With baseAPY = 0 supplied, a stake of 1000000 held for a day earns the 136
\* that 500 basis points give.
C38_RewardAtZeroAPY ==
    (/\ Supplies
     /\ iapp.request.action = "calculate_rewards"
     /\ iapp.request.baseAPY = Num(0)
     /\ iapp.request.currentTimestamp = Num(Launch + Day)
     /\ iapp.request.stakeData.amount = Num(1000000)
     /\ iapp.request.stakeData.stakeTimestamp = Num(Launch)) =>
        /\ ~iapp.result.threw
        /\ iapp.result.value.rewards = Num(136)
====
